---- MODULE Spec2Model ----
(***************************************************************************)
(* Hybrid retrieval engine of LLM-PDF-Q-A: the embedding store             *)
(* (VectorStore), the fact graph (rdfStore, an N3.Store), the oracle calls *)
(* with their retry loops, the indexing run (indexPDF) and the query run   *)
(* with its depth-bounded traversal (queryPDF), as driven by main.         *)
(***************************************************************************)
EXTENDS Integers, Sequences, FiniteSets, TLC

VARIABLES
    pc,            \* position of main / indexPDF / queryPDF
    exitCode,      \* process.exit status, NoExit while running
    vectorStore,   \* VectorStore.entries: sequence of [text, embedding]
    rdfStore,      \* the quads held by the N3.Store, in insertion order
    i,             \* indexPDF: loop variable over the chunks
    chunkEntities, \* indexPDF: the entities the for-of loop has yet to visit
    qEmbedding,    \* queryPDF: embedding, the embedding of the question
    depth,         \* queryPDF: hop counter
    allNodes,      \* queryPDF: the frontier
    visitedNodes,  \* queryPDF: the visited nodes
    nextNodes,     \* queryPDF: last value returned by chooseNextGraphNode
    chunkIndices,  \* queryPDF: chunk indices handed to the answer stage
    attempts,      \* the running oracle call's attempts counter
    \* history variables (not program state)
    requests,      \* requests issued by the running / last oracle call
    lastResp,      \* the last response received
    opKind,        \* which oracle-backed operation ran last
    opStatus,      \* "idle", "pending", "returned" or "failed"
    opResult,      \* the value the last oracle call returned
    exhausted,     \* an oracle call has used up its retry budget
    chooseCalls,   \* calls of chooseNextGraphNode in this query
    seedNodes,     \* the frontier built by the seed step
    hopFrontier,   \* the frontier handed to chooseNextGraphNode at this hop
    expanded,      \* the nodes expanded so far
    reExpanded,    \* some node has been expanded a second time
    oracleFaithful, \* every answer so far: distinct nodes of the frontier
    errorSeen,     \* an error has been raised in this run
    \* the files of the two stores
    vsFile,        \* content of the file at VECTOR_STORE_PATH
    rdfFile,       \* content of the file at RDF_STORE_PATH
    \* the stores and the answer stage exercised call by call
    call,          \* the last call: its operation, arguments, result
    added,         \* the quads handed to rdfStore.addQuad, in call order
    \* llm_do_initial_pass and the analyzeChunk calls of its batches
    tasks,         \* per chunk: the state of its analyzeChunk call
    batchI,        \* the loop variable i of llm_do_initial_pass
    analyses,      \* the analyses pushed so far
    passStatus,    \* "idle", "running", "returned" or "thrown"
    \* callers running the loop body of indexPDF on the same two stores
    callers,       \* per caller: its position, how many entities are left
    storeArgs,     \* the entries the callers have handed to vectorStore.store
    quadArgs       \* the quads the callers have handed to rdfStore.addQuad

vars == <<pc, exitCode, vectorStore, rdfStore, i, chunkEntities, qEmbedding,
          depth,
          allNodes, visitedNodes, nextNodes, chunkIndices, attempts, requests,
          lastResp, opKind, opStatus, opResult, exhausted, chooseCalls,
          seedNodes, hopFrontier, expanded, reExpanded, oracleFaithful,
          errorSeen, vsFile, rdfFile, call, added, tasks, batchI, analyses,
          passStatus, callers, storeArgs, quadArgs>>

(***************************************************************************)
(* Bounds of the model                                                     *)
(***************************************************************************)
\* facts in a graph store loaded for a query
MaxFacts == 3
\* entries in an embedding store loaded for a query
MaxEntries == 2
\* items in the JSON array of one oracle answer (nodes, entities, triples)
MaxItems == 2
\* chunks of the indexed document
NumChunks == 2
\* entries a store() call may bring the embedding store to
MaxStored == 3
\* max_results of a get_most_similar call
MaxK == 2
\* calls of rdfStore.addQuad on one store
MaxAdds == 3
\* items of the qaInput handed to llm_do_question_answer
MaxInput == 3

(***************************************************************************)
(* Program constants                                                       *)
(***************************************************************************)
\* while (attempts < 3) / if (attempts === 3)
MaxAttempts == 3
\* if (depth > 2) break
MaxDepth == 2
\* get_most_similar(question, embedding, 10)
SeedK == 10
\* get_most_similar(entity, embedding, 1)
SynonymK == 1
\* SYNONYM_THRESHOLD = 0.95 as the fraction 95/100
SynThresholdNum == 95
SynThresholdDen == 100
\* queryPDF(pdfPath, question, max_similarities = 3)
MaxSimilarities == 3

NoExit == -1

(***************************************************************************)
(* Values                                                                  *)
(***************************************************************************)
Range(s) == {s[k] : k \in 1..Len(s)}

SeqsUpTo(S, n) == UNION {[1..m -> S] : m \in 0..n}

Labels == {"RadioCity", "India"}
Question == "Where is Radio City?"
Predicates == {"locatedIn"}
Embeddings == {<<1, 0>>, <<0, 1>>}

\* namedNode(`chunk_${i}`): the name as its two parts around the underscore
ChunkName(n) == <<"chunk", n>>

\* n.chunk.split('_')[1] followed by parseInt
ChunkIndex(c) == c[2]

Quad(s, p, o, g) == [subject |-> s, predicate |-> p, object |-> o, graph |-> g]

\* the GraphNode built from a quad of the store
GraphNode(q) ==
    [subject |-> q.subject, predicate |-> q.predicate,
     value |-> q.object, chunk |-> q.graph]

RadioCityQuad == Quad("RadioCity", "locatedIn", "India", ChunkName(0))

\* the facts a loaded graph store is drawn from: RadioCity -> India from two
\* chunks, India -> RadioCity (which closes a cycle), and a fact of RadioCity
\* about itself
QuadUniverse ==
    {RadioCityQuad,
     Quad("RadioCity", "locatedIn", "India", ChunkName(1)),
     Quad("RadioCity", "locatedIn", "RadioCity", ChunkName(0)),
     Quad("India", "locatedIn", "RadioCity", ChunkName(1))}

(***************************************************************************)
(* VectorStore                                                             *)
(***************************************************************************)
contains(entries, text) == \E k \in 1..Len(entries) : entries[k].text = text

storeAppending(entries, text, embedding) ==
    Append(entries, [text |-> text, embedding |-> embedding])

\* VectorStore.store
store(entries, text, embedding) ==
    IF contains(entries, text)
    THEN entries
    ELSE Append(entries, [text |-> text, embedding |-> embedding])

RECURSIVE DotFrom(_, _, _)
DotFrom(a, b, k) ==
    IF k > Len(a) THEN 0 ELSE a[k] * b[k] + DotFrom(a, b, k + 1)

Dot(a, b) == DotFrom(a, b, 1)

\* cosineSimilarity(vec1, vec2) as the exact value num / sqrt(den2); the
\* length check is LengthsAgree, the zero-magnitude guard yields 0
LengthsAgree(a, b) == Len(a) = Len(b)

cosineSimilarity(a, b) ==
    IF Dot(a, a) = 0 \/ Dot(b, b) = 0
    THEN [num |-> 0, den2 |-> 1]
    ELSE [num |-> Dot(a, b), den2 |-> Dot(a, a) * Dot(b, b)]

Sign(x) == IF x > 0 THEN 1 ELSE IF x < 0 THEN -1 ELSE 0

\* x < y for two cosine values, by cross-multiplying the signed squares
CosLess(x, y) ==
    Sign(x.num) * x.num * x.num * y.den2 < Sign(y.num) * y.num * y.num * x.den2

\* cos >= 0.95
AtLeastThreshold(x) ==
    /\ x.num > 0
    /\ x.num * x.num * SynThresholdDen * SynThresholdDen
         >= SynThresholdNum * SynThresholdNum * x.den2

RECURSIVE InsertDescBeforeTies(_, _)
InsertDescBeforeTies(x, sorted) ==
    IF sorted = << >> THEN <<x>>
    ELSE IF ~CosLess(x.similarity, Head(sorted).similarity)
         THEN <<x>> \o sorted
         ELSE <<Head(sorted)>> \o InsertDescBeforeTies(x, Tail(sorted))

\* similarities.sort((a, b) => b.similarity - a.similarity): stable, descending
RECURSIVE InsertDesc(_, _)
InsertDesc(x, sorted) ==
    IF sorted = << >> THEN <<x>>
    ELSE IF CosLess(Head(sorted).similarity, x.similarity)
         THEN <<x>> \o sorted
         ELSE <<Head(sorted)>> \o InsertDesc(x, Tail(sorted))

RECURSIVE SortDesc(_, _)
SortDesc(sims, acc) ==
    IF sims = << >> THEN acc
    ELSE SortDesc(Tail(sims), InsertDesc(Head(sims), acc))

RECURSIVE CandidatesWithSelf(_, _, _)
CandidatesWithSelf(entries, text, embedding) ==
    IF entries = << >> THEN << >>
    ELSE <<[text |-> Head(entries).text,
            similarity |-> cosineSimilarity(Head(entries).embedding, embedding)]>>
         \o CandidatesWithSelf(Tail(entries), text, embedding)

\* the loop of get_most_similar: the entry whose text is the query text is
\* skipped, every other entry gets its similarity
RECURSIVE Candidates(_, _, _)
Candidates(entries, text, embedding) ==
    IF entries = << >> THEN << >>
    ELSE IF Head(entries).text = text
         THEN Candidates(Tail(entries), text, embedding)
         ELSE <<[text |-> Head(entries).text,
                 similarity |-> cosineSimilarity(Head(entries).embedding, embedding)]>>
              \o Candidates(Tail(entries), text, embedding)

\* VectorStore.get_most_similar
get_most_similar(entries, text, embedding, max_results) ==
    LET sorted == SortDesc(Candidates(entries, text, embedding), << >>)
    IN  SubSeq(sorted, 1, IF Len(sorted) < max_results THEN Len(sorted) ELSE max_results)

\* every comparison of get_most_similar is between vectors of one length
SimilarityDefined(entries, text, embedding) ==
    \A k \in 1..Len(entries) :
        entries[k].text # text => LengthsAgree(entries[k].embedding, embedding)

\* entries.find(entry => entry.text === text): the index of the first match
FirstIndex(entries, text) ==
    CHOOSE k \in 1..Len(entries) :
        entries[k].text = text /\ \A j \in 1..(k - 1) : entries[j].text # text

\* the value of a call that returns v, and of a call that throws the error e
Returned(v) == [error |-> "none", value |-> v]
Thrown(e) == [error |-> e, value |-> << >>]

\* cosineSimilarity(vec1, vec2) as a call: the length check, then the value
cosineSimilarityCall(a, b) ==
    IF LengthsAgree(a, b)
    THEN Returned(cosineSimilarity(a, b))
    ELSE Thrown("Vectors must have the same length")

calcSimilarityDefaulting(entries, text1, text2) ==
    IF contains(entries, text1) /\ contains(entries, text2)
    THEN cosineSimilarityCall(entries[FirstIndex(entries, text1)].embedding,
                              entries[FirstIndex(entries, text2)].embedding)
    ELSE Returned([num |-> 0, den2 |-> 1])

\* VectorStore.calcSimilarity
calcSimilarity(entries, text1, text2) ==
    IF ~contains(entries, text1) THEN Thrown("not found in store")
    ELSE IF ~contains(entries, text2) THEN Thrown("not found in store")
    ELSE cosineSimilarityCall(entries[FirstIndex(entries, text1)].embedding,
                              entries[FirstIndex(entries, text2)].embedding)

\* VectorStore.getEmbedding: the embedding of the first entry with the text,
\* or null
getEmbedding(entries, text) ==
    IF contains(entries, text)
    THEN [found |-> TRUE, embedding |-> entries[FirstIndex(entries, text)].embedding]
    ELSE [found |-> FALSE, embedding |-> << >>]

(***************************************************************************)
(* rdfStore (N3.Store)                                                     *)
(***************************************************************************)
\* The store is an index graph -> subject -> predicate -> object: it holds a
\* quad once and enumerates its quads in the order of that index.
LabelRank(l) == IF l = "RadioCity" THEN 0 ELSE IF l = "India" THEN 1 ELSE 2

PredicateRank(p) == IF p = "locatedIn" THEN 0 ELSE 1

QuadRank(q) ==
    ((q.graph[2] * 3 + LabelRank(q.subject)) * 2 + PredicateRank(q.predicate)) * 3
      + LabelRank(q.object)

RECURSIVE InsertQuad(_, _)
InsertQuad(quads, q) ==
    IF quads = << >> THEN <<q>>
    ELSE IF QuadRank(q) < QuadRank(Head(quads))
         THEN <<q>> \o quads
         ELSE <<Head(quads)>> \o InsertQuad(Tail(quads), q)

addQuadAppending(quads, q) == Append(quads, q)

\* rdfStore.addQuad
addQuad(quads, q) ==
    IF \E k \in 1..Len(quads) : quads[k] = q THEN quads ELSE InsertQuad(quads, q)

RECURSIVE addQuads(_, _)
addQuads(quads, qs) ==
    IF qs = << >> THEN quads ELSE addQuads(addQuad(quads, Head(qs)), Tail(qs))

\* rdfStore.match(namedNode(s), null, null)
RECURSIVE matchSubject(_, _)
matchSubject(quads, s) ==
    IF quads = << >> THEN << >>
    ELSE (IF Head(quads).subject = s THEN <<Head(quads)>> ELSE << >>)
         \o matchSubject(Tail(quads), s)

\* rdfStore.match(null, null, literal(o, "en"))
RECURSIVE matchObject(_, _)
matchObject(quads, o) ==
    IF quads = << >> THEN << >>
    ELSE (IF Head(quads).object = o THEN <<Head(quads)>> ELSE << >>)
         \o matchObject(Tail(quads), o)

RECURSIVE MapNodes(_)
MapNodes(quads) ==
    IF quads = << >> THEN << >>
    ELSE <<GraphNode(Head(quads))>> \o MapNodes(Tail(quads))

(***************************************************************************)
(* Oracle responses and the retry loops                                    *)
(***************************************************************************)
\* A parsed JSON value: an array with its items, or something else
\* (an object, a number, a string, null).
JsonArray(items) == [isArray |-> TRUE, items |-> items]
JsonOther == [isArray |-> FALSE, items |-> << >>]

\* What a request can come back with: "json" content that JSON.parse accepts,
\* "unparseable" content (JSON.parse throws SyntaxError), "empty" content
\* (null or ''), or an "error" thrown by the request itself.
Resp(kind, value) == [kind |-> kind, value |-> value]
NoResp == Resp("none", JsonOther)

\* JSON.parse(content || '[]')
ParseOrEmptyArray(resp) ==
    IF resp.kind = "empty" THEN JsonArray(<< >>) ELSE resp.value

\* JSON.parse(content || '{"named_entities": [], "triples": []}')
ParseOrEmptyObject(resp) ==
    IF resp.kind = "empty" THEN JsonOther ELSE resp.value

chooseNextGraphNodeNeverGivingUp(att, resp) ==
    IF resp.kind = "error" THEN "throw"
    ELSE IF resp.kind = "unparseable" THEN "retry" ELSE "return"

chooseNextGraphNodeFourTries(att, resp) ==
    IF resp.kind = "error" THEN "throw"
    ELSE IF resp.kind = "unparseable"
         THEN (IF att + 1 = MaxAttempts + 1 THEN "exhausted" ELSE "retry")
         ELSE "return"

\* One pass of the loop of chooseNextGraphNode with the given response:
\* "return" the parsed value, "retry", or throw ("exhausted" after the third
\* SyntaxError, "throw" for any other error).
chooseNextGraphNode(att, resp) ==
    IF resp.kind = "error" THEN "throw"
    ELSE IF resp.kind = "unparseable"
         THEN (IF att + 1 = MaxAttempts THEN "exhausted" ELSE "retry")
         ELSE "return"

extractEntitiesRetryingErrors(att, resp) ==
    IF resp.kind \in {"error", "unparseable"}
    THEN (IF att + 1 = MaxAttempts THEN "exhausted" ELSE "retry")
    ELSE "return"

\* One pass of the loop of extractEntities
extractEntities(att, resp) ==
    IF resp.kind = "error" THEN "throw"
    ELSE IF resp.kind = "unparseable"
         THEN (IF att + 1 = MaxAttempts THEN "exhausted" ELSE "retry")
         ELSE "return"

\* One pass of the loop of extractRDFTriples
extractRDFTriples(att, resp) ==
    IF resp.kind = "error" THEN "throw"
    ELSE IF resp.kind = "unparseable"
         THEN (IF att + 1 = MaxAttempts THEN "exhausted" ELSE "retry")
         ELSE "return"

llm_do_question_answerParsed(resp) ==
    IF resp.kind \in {"error", "unparseable"} THEN "throw" ELSE "return"

RECURSIVE Digits(_)
Digits(n) == IF n < 10 THEN 1 ELSE 1 + Digits(n \div 10)

\* the length of `[Chunk ${analysis.index}]:\n${chunk}\n\n`
BlockLength(item) == 7 + Digits(item.index) + 3 + item.chunk + 2

\* The loop of llm_do_question_answer that builds the context; an item of
\* qaInput is [chunk |-> chunk.length, index |-> index] and the context is
\* followed by its length.
RECURSIVE BuildContext(_, _, _, _)
BuildContext(qaInput, context, indices, max_characters) ==
    IF qaInput = << >>
    THEN [context |-> context, chunkIndices |-> indices]
    ELSE IF context + Head(qaInput).chunk <= max_characters
         THEN BuildContext(Tail(qaInput), context + BlockLength(Head(qaInput)),
                           Append(indices, Head(qaInput).index),
                           max_characters)
         ELSE [context |-> context, chunkIndices |-> indices]

\* llm_do_question_answer: one request, its content returned as it is
\* ('No answer generated' for empty content), any error rethrown
llm_do_question_answer(resp) ==
    IF resp.kind = "error" THEN "throw" ELSE "return"

(***************************************************************************)
(* queryPDF: seed and traversal                                            *)
(***************************************************************************)
RECURSIVE SeedFrontierReversed(_, _)
SeedFrontierReversed(quads, similarities) ==
    IF similarities = << >> THEN << >>
    ELSE SeedFrontierReversed(quads, Tail(similarities))
         \o MapNodes(matchSubject(quads, Head(similarities).text))

\* for (const similarity of similarities) { rdfStore.match(subject) ... push }
RECURSIVE SeedFrontier(_, _)
SeedFrontier(quads, similarities) ==
    IF similarities = << >> THEN << >>
    ELSE MapNodes(matchSubject(quads, Head(similarities).text))
         \o SeedFrontier(quads, Tail(similarities))

strategyEmbedEntities == "embed_entities"

\* const strategy : 'embed_question' | 'embed_entities' = 'embed_question'
strategy == "embed_question"

\* the branch of strategy embed_entities: for each entity of the question,
\* its stored embedding or, when getEmbedding returns null, a fresh one that
\* is stored; then the seeds of get_most_similar(question, embedding,
\* max_similarities)
RECURSIVE SeedEntities(_, _, _, _)
SeedEntities(entries, quads, entities, fresh) ==
    IF entities = << >> THEN [entries |-> entries, nodes |-> << >>]
    ELSE LET known == getEmbedding(entries, Head(entities))
             e == IF known.found THEN known.embedding ELSE fresh
             es == IF known.found THEN entries
                   ELSE store(entries, Head(entities), fresh)
             rest == SeedEntities(es, quads, Tail(entities), fresh)
         IN  [entries |-> rest.entries,
              nodes |-> SeedFrontier(quads,
                                     get_most_similar(es, Question, e,
                                                      MaxSimilarities))
                        \o rest.nodes]

InSeq(s, x) == \E k \in 1..Len(s) : s[k] = x

RECURSIVE VisitNewNotRecorded(_, _, _)
VisitNewNotRecorded(queryNodes, visited, tmp) ==
    IF queryNodes = << >> THEN [visited |-> visited, tmp |-> tmp]
    ELSE LET n == GraphNode(Head(queryNodes))
         IN  IF InSeq(visited, n) \/ InSeq(tmp, n)
             THEN VisitNewNotRecorded(Tail(queryNodes), visited, tmp)
             ELSE VisitNewNotRecorded(Tail(queryNodes), visited, Append(tmp, n))

RECURSIVE VisitNewUnchecked(_, _, _)
VisitNewUnchecked(queryNodes, visited, tmp) ==
    IF queryNodes = << >> THEN [visited |-> visited, tmp |-> tmp]
    ELSE LET n == GraphNode(Head(queryNodes))
         IN  VisitNewUnchecked(Tail(queryNodes), Append(visited, n), Append(tmp, n))

\* the inner loop over queryNodes: push the nodes that visitedNodes lacks
RECURSIVE VisitNew(_, _, _)
VisitNew(queryNodes, visited, tmp) ==
    IF queryNodes = << >> THEN [visited |-> visited, tmp |-> tmp]
    ELSE LET n == GraphNode(Head(queryNodes))
         IN  IF InSeq(visited, n)
             THEN VisitNew(Tail(queryNodes), visited, tmp)
             ELSE VisitNew(Tail(queryNodes), Append(visited, n), Append(tmp, n))

QueryNodesSubjectOnly(quads, node) == matchSubject(quads, node.subject)

\* the two queries made for one selected node
QueryNodes(quads, node) ==
    matchObject(quads, node.value) \o matchSubject(quads, node.subject)

RECURSIVE ExpandAllKeepingSelected(_, _, _, _)
ExpandAllKeepingSelected(quads, nodes, visited, frontier) ==
    IF nodes = << >> THEN [visited |-> visited, frontier |-> frontier]
    ELSE LET seen == IF InSeq(visited, Head(nodes)) THEN visited
                     ELSE Append(visited, Head(nodes))
             r == VisitNew(QueryNodes(quads, Head(nodes)), seen, << >>)
         IN  ExpandAllKeepingSelected(quads, Tail(nodes), r.visited,
                                      frontier \o r.tmp)

\* for (const node of nextNodes) { ... allNodes.push(...tmp) }
RECURSIVE ExpandAll(_, _, _, _)
ExpandAll(quads, nodes, visited, frontier) ==
    IF nodes = << >> THEN [visited |-> visited, frontier |-> frontier]
    ELSE LET r == VisitNew(QueryNodes(quads, Head(nodes)), visited, << >>)
         IN  ExpandAll(quads, Tail(nodes), r.visited, frontier \o r.tmp)

\* visitedNodes.map(n => n.chunk.split('_')[1]) and parseInt
RECURSIVE ChunkIndicesOf(_)
ChunkIndicesOf(visited) ==
    IF visited = << >> THEN << >>
    ELSE <<ChunkIndex(Head(visited).chunk)>> \o ChunkIndicesOf(Tail(visited))

NoRepeat(s) == \A a, b \in 1..Len(s) : a # b => s[a] # s[b]

(***************************************************************************)
(* Persistence of the two stores                                           *)
(***************************************************************************)
\* The file of the embedding store: "absent" (readFile fails with ENOENT),
\* "unreadable" (readFile fails otherwise), "notJson" (JSON.parse throws),
\* "noEntries" (no array-valued entries field) or "entries" with the parsed
\* array. An entry of the file has a text ("" when it is missing or empty)
\* and an embedding that is a JSON array or something else.
VsFile(kind, entries) == [kind |-> kind, entries |-> entries]

FileEntry(text, embedding) == [text |-> text, embedding |-> embedding]

\* JSON.stringify({ entries: this.entries }, null, 2)
RECURSIVE StringifyEntries(_)
StringifyEntries(entries) ==
    IF entries = << >> THEN << >>
    ELSE <<FileEntry(Head(entries).text, JsonArray(Head(entries).embedding))>>
         \o StringifyEntries(Tail(entries))

\* VectorStore.save, the write succeeding
save(entries) == VsFile("entries", StringifyEntries(entries))

\* if (!entry.text || !Array.isArray(entry.embedding)) throw
ValidEntry(fileEntry) == fileEntry.text # "" /\ fileEntry.embedding.isArray

\* this.entries = parsed.entries
RECURSIVE ParsedEntries(_)
ParsedEntries(fileEntries) ==
    IF fileEntries = << >> THEN << >>
    ELSE <<[text |-> Head(fileEntries).text,
            embedding |-> Head(fileEntries).embedding.items]>>
         \o ParsedEntries(Tail(fileEntries))

\* the longest prefix of valid entries
RECURSIVE ValidPrefix(_)
ValidPrefix(fileEntries) ==
    IF fileEntries = << >> \/ ~ValidEntry(Head(fileEntries)) THEN << >>
    ELSE <<Head(fileEntries)>> \o ValidPrefix(Tail(fileEntries))

loadKeepingValidPrefix(entries, file) ==
    CASE file.kind = "absent" -> [ok |-> TRUE, entries |-> << >>]
      [] file.kind = "entries" ->
           [ok |-> ValidPrefix(file.entries) = file.entries,
            entries |-> ParsedEntries(ValidPrefix(file.entries))]
      [] OTHER -> [ok |-> FALSE, entries |-> entries]

\* VectorStore.load on a store holding entries: whether it returns (ok) or
\* throws, and the entries the store holds afterwards
load(entries, file) ==
    CASE file.kind = "absent" -> [ok |-> TRUE, entries |-> << >>]
      [] file.kind = "entries" ->
           IF \A k \in 1..Len(file.entries) : ValidEntry(file.entries[k])
           THEN [ok |-> TRUE, entries |-> ParsedEntries(file.entries)]
           ELSE [ok |-> FALSE, entries |-> entries]
      [] OTHER -> [ok |-> FALSE, entries |-> entries]

\* The file of the graph store: "absent", "unreadable" or "text" with its
\* non-empty lines. A line renders a quad and either matches the pattern
\* <subject> <predicate> "object"@en <graph> . or does not.
RdfFile(kind, lines) == [kind |-> kind, lines |-> lines]

RdfLine(matches, q) == [matches |-> matches, quad |-> q]

\* A text as the writer and the pattern see it: a sequence of units, each a
\* run of ordinary characters, a double quote or a backslash. The empty text
\* has no unit, QuotedLabel is Radio "City", every other label is one run.
DQuote == "DQUOTE"
Backslash == "BACKSLASH"
QuotedLabel == "RadioQuotedCity"

TextUnits(text) ==
    IF text = "" THEN << >>
    ELSE IF text = QuotedLabel THEN <<"Radio ", DQuote, "City", DQuote>>
    ELSE <<text>>

\* N3.Writer, a literal between its quotes: a double quote or a backslash of
\* the value is written with a backslash before it
RECURSIVE WrittenLiteral(_)
WrittenLiteral(units) ==
    IF units = << >> THEN << >>
    ELSE (IF Head(units) \in {DQuote, Backslash}
          THEN <<Backslash, Head(units)>> ELSE <<Head(units)>>)
         \o WrittenLiteral(Tail(units))

\* "([^"]+)"@en on what the writer put between the quotes: one character at
\* least, and up to the quote that @en follows none that is a double quote
LiteralMatches(written) ==
    /\ written # << >>
    /\ \A k \in 1..Len(written) : written[k] # DQuote

\* <([^>]+)> on a subject or a predicate: one character at least
IriMatches(text) == text # ""

\* the pattern of loadRDFStoreFromText on the line N3.Writer writes for q;
\* when it matches, the groups are the four texts of q
WrittenLineMatches(q) ==
    /\ IriMatches(q.subject)
    /\ IriMatches(q.predicate)
    /\ LiteralMatches(WrittenLiteral(TextUnits(q.object)))

\* saveRDFStore: one line per quad of rdfStore.match(null, null, null)
RECURSIVE WriteQuads(_)
WriteQuads(quads) ==
    IF quads = << >> THEN << >>
    ELSE <<RdfLine(WrittenLineMatches(Head(quads)), Head(quads))>>
         \o WriteQuads(Tail(quads))

saveRDFStore(quads) == RdfFile("text", WriteQuads(quads))

RECURSIVE loadRDFStoreFromTextStoppingAtMalformed(_, _)
loadRDFStoreFromTextStoppingAtMalformed(quads, lines) ==
    IF lines = << >> \/ ~Head(lines).matches THEN quads
    ELSE loadRDFStoreFromTextStoppingAtMalformed(addQuad(quads, Head(lines).quad),
                                                 Tail(lines))

\* loadRDFStoreFromText: addQuad for every line that matches
RECURSIVE loadRDFStoreFromText(_, _)
loadRDFStoreFromText(quads, lines) ==
    IF lines = << >> THEN quads
    ELSE loadRDFStoreFromText(
             IF Head(lines).matches THEN addQuad(quads, Head(lines).quad) ELSE quads,
             Tail(lines))

\* the quads loadRDFStoreFromText hands to addQuad
RECURSIVE MatchingQuads(_)
MatchingQuads(lines) ==
    IF lines = << >> THEN << >>
    ELSE (IF Head(lines).matches THEN <<Head(lines).quad>> ELSE << >>)
         \o MatchingQuads(Tail(lines))

loadRDFStoreFailingOnAbsent(quads, file) ==
    CASE file.kind = "text" ->
           [ok |-> TRUE, quads |-> loadRDFStoreFromText(quads, file.lines)]
      [] OTHER -> [ok |-> FALSE, quads |-> quads]

\* loadRDFStore on a store holding quads
loadRDFStore(quads, file) ==
    CASE file.kind = "absent" -> [ok |-> TRUE, quads |-> quads]
      [] file.kind = "text" ->
           [ok |-> TRUE, quads |-> loadRDFStoreFromText(quads, file.lines)]
      [] OTHER -> [ok |-> FALSE, quads |-> quads]

(***************************************************************************)
(* Inputs                                                                  *)
(***************************************************************************)
\* graph stores a query can load: the facts of a saved store, each once
LoadableRdfStores ==
    {s \in SeqsUpTo(QuadUniverse, MaxFacts) :
        \A a, b \in 1..Len(s) : a < b => QuadRank(s[a]) < QuadRank(s[b])}

EntryUniverse == {[text |-> l, embedding |-> e] : l \in Labels, e \in Embeddings}

\* embedding stores a query can load: what store() calls have built
LoadableVectorStores ==
    {s \in SeqsUpTo(EntryUniverse, MaxEntries) :
        \A a, b \in 1..Len(s) : a # b => s[a].text # s[b].text}

\* the files a query run may find: those an index run has saved, no file,
\* a file that cannot be parsed or read
MainVsFiles ==
    {save(s) : s \in LoadableVectorStores}
    \cup {VsFile("absent", << >>), VsFile("notJson", << >>)}

MainRdfFiles ==
    {saveRDFStore(s) : s \in LoadableRdfStores}
    \cup {RdfFile("absent", << >>), RdfFile("unreadable", << >>)}

\* a node an answer of the relevance oracle may name besides those of the
\* frontier: no store holds it, and its value is a label of the graph
StrayNodes ==
    {[subject |-> "Summer", predicate |-> "takes place in",
      value |-> "India", chunk |-> <<"graph", 0>>]}

\* the JSON arrays the relevance oracle may answer with
ChooseAnswers(frontier) == SeqsUpTo(Range(frontier) \cup StrayNodes, MaxItems)

\* the responses a request of chooseNextGraphNode may come back with
ChooseResponses(frontier) ==
    {Resp("json", JsonArray(a)) : a \in ChooseAnswers(frontier)}
    \cup {Resp("json", JsonOther), Resp("unparseable", JsonOther),
          Resp("empty", JsonOther), Resp("error", JsonOther)}

(***************************************************************************)
(* Initial state: the module-level stores are empty, main has not started  *)
(***************************************************************************)
NoCall == [op |-> "none"]

\* the locals of main, indexPDF and queryPDF, and the history of the calls
InitMain ==
    /\ exitCode = NoExit
    /\ i = 0
    /\ chunkEntities = << >>
    /\ qEmbedding = << >>
    /\ depth = 0
    /\ allNodes = << >>
    /\ visitedNodes = << >>
    /\ nextNodes = JsonArray(<< >>)
    /\ chunkIndices = << >>
    /\ attempts = 0
    /\ requests = 0
    /\ lastResp = NoResp
    /\ opKind = "none"
    /\ opStatus = "idle"
    /\ opResult = JsonArray(<< >>)
    /\ exhausted = FALSE
    /\ chooseCalls = 0
    /\ seedNodes = << >>
    /\ hopFrontier = << >>
    /\ expanded = {}
    /\ reExpanded = FALSE
    /\ oracleFaithful = TRUE
    /\ errorSeen = FALSE
    /\ call = NoCall
    /\ added = << >>

\* llm_do_initial_pass has not been called
InitPass ==
    /\ tasks = << >>
    /\ batchI = 0
    /\ analyses = << >>
    /\ passStatus = "idle"

\* everything but the two stores and the files
InitLocals ==
    /\ InitMain
    /\ InitPass
    /\ callers = << >>
    /\ storeArgs = {}
    /\ quadArgs = {}

InitRun ==
    /\ vectorStore = << >>
    /\ rdfStore = << >>
    /\ InitLocals

Init ==
    /\ pc = "main"
    /\ vsFile = VsFile("absent", << >>)
    /\ rdfFile = RdfFile("absent", << >>)
    /\ InitRun

indexVars == <<i, chunkEntities>>
queryVars == <<qEmbedding, depth, allNodes, visitedNodes, nextNodes, chunkIndices>>
storeVars == <<vectorStore, rdfStore>>
opVars == <<attempts, requests, lastResp, opKind, opStatus, opResult>>
traceVars == <<chooseCalls, seedNodes, hopFrontier, expanded, reExpanded,
               oracleFaithful>>
fileVars == <<vsFile, rdfFile>>
callVars == <<call, added>>
callerVars == <<callers, storeArgs, quadArgs>>
asyncVars == <<tasks, batchI, analyses, passStatus, callerVars>>
runVars == <<exitCode, indexVars, queryVars, opVars, exhausted, traceVars,
             errorSeen>>

\* process.exit(code)
Exit(code) == pc' = "exit" /\ exitCode' = code

(***************************************************************************)
(* main, query mode                                                        *)
(***************************************************************************)
\* main without a usable argument list: process.exit(1)
MainUsage ==
    /\ pc = "main"
    /\ Exit(1)
    /\ errorSeen' = TRUE
    /\ UNCHANGED <<storeVars, indexVars, queryVars, opVars, exhausted, traceVars,
                   fileVars, callVars>>
    /\ UNCHANGED asyncVars

\* main -q: vectorStore.load, loadRDFStore, then queryPDF; a load that
\* throws ends the run in main's catch
MainQuery ==
    /\ pc = "main"
    /\ \E vf \in MainVsFiles, rf \in MainRdfFiles :
          LET v == load(vectorStore, vf)
              r == loadRDFStore(rdfStore, rf)
          IN  /\ vsFile' = vf
              /\ vectorStore' = v.entries
              /\ IF v.ok
                 THEN rdfFile' = rf /\ rdfStore' = r.quads
                 ELSE UNCHANGED <<rdfFile, rdfStore>>
              /\ IF v.ok /\ r.ok
                 THEN pc' = "seed" /\ UNCHANGED <<exitCode, errorSeen>>
                 ELSE Exit(1) /\ errorSeen' = TRUE
    /\ UNCHANGED <<indexVars, queryVars, opVars, exhausted, traceVars, callVars>>
    /\ UNCHANGED asyncVars

\* queryPDF, strategy embed_question: the frontier of the seed step
Seed ==
    /\ pc = "seed"
    /\ \/ /\ \E e \in Embeddings :
                IF strategy = "embed_question"
                THEN LET similarities ==
                             get_most_similar(vectorStore, Question, e, SeedK)
                         nodes == SeedFrontier(rdfStore, similarities)
                     IN  /\ SimilarityDefined(vectorStore, Question, e)
                         /\ qEmbedding' = e
                         /\ allNodes' = nodes
                         /\ seedNodes' = nodes
                         /\ UNCHANGED vectorStore
                ELSE \E entities \in SeqsUpTo(Labels, MaxItems) :
                         LET r == SeedEntities(vectorStore, rdfStore, entities, e)
                         IN  /\ qEmbedding' = e
                             /\ allNodes' = r.nodes
                             /\ seedNodes' = r.nodes
                             /\ vectorStore' = r.entries
          /\ depth' = 0
          /\ visitedNodes' = << >>
          /\ pc' = "loop"
          /\ UNCHANGED <<exitCode, nextNodes, chunkIndices>>
       \/ \* getEmbedding throws
          /\ Exit(1)
          /\ UNCHANGED <<queryVars, seedNodes, vectorStore>>
    /\ errorSeen' = (errorSeen \/ pc' = "exit")
    /\ UNCHANGED <<rdfStore, indexVars, opVars, exhausted, chooseCalls,
                   hopFrontier, expanded, reExpanded, oracleFaithful,
                   fileVars, callVars>>
    /\ UNCHANGED asyncVars

DepthLimitOffByOne(d) == d > MaxDepth + 1

\* if (depth > 2) break
DepthLimitReached(d) == d > MaxDepth

FrontierExhaustedNever(frontier) == Len(frontier) < 0

\* if (allNodes.length == 0) break
FrontierExhausted(frontier) == Len(frontier) = 0

\* the head of the while loop: the two breaks, else the call of
\* chooseNextGraphNode
LoopTest ==
    /\ pc = "loop"
    /\ IF DepthLimitReached(depth) \/ FrontierExhausted(allNodes)
       THEN /\ pc' = "answer"
            /\ opStatus' = "idle"
            /\ UNCHANGED <<attempts, requests, opKind, chooseCalls>>
       ELSE /\ pc' = "choose"
            /\ attempts' = 0
            /\ requests' = 0
            /\ opKind' = "choose"
            /\ opStatus' = "pending"
            /\ chooseCalls' = chooseCalls + 1
    \* nextNodes is local to one pass of the loop body
    /\ nextNodes' = JsonArray(<< >>)
    /\ hopFrontier' = allNodes
    /\ lastResp' = NoResp
    /\ opResult' = JsonArray(<< >>)
    /\ UNCHANGED <<exitCode, storeVars, indexVars, qEmbedding, depth, allNodes,
                   visitedNodes, chunkIndices, exhausted,
                   seedNodes, expanded,
                   reExpanded, oracleFaithful, errorSeen, fileVars, callVars>>
    /\ UNCHANGED asyncVars

\* the rest of the loop body once chooseNextGraphNode has returned value
HopBody(value) ==
    IF value.isArray
    THEN LET r == ExpandAll(rdfStore, value.items, visitedNodes, << >>)
         IN  /\ allNodes' = r.frontier
             /\ visitedNodes' = r.visited
             /\ depth' = depth + 1
             /\ pc' = "loop"
             /\ expanded' = expanded \cup Range(value.items)
             /\ reExpanded' =
                  (reExpanded \/ ~NoRepeat(value.items)
                     \/ Range(value.items) \cap expanded # {})
             /\ oracleFaithful' =
                  (oracleFaithful /\ NoRepeat(value.items)
                     /\ Range(value.items) \subseteq Range(allNodes))
             /\ UNCHANGED exitCode
    ELSE \* nextNodes.map is not a function: TypeError
         /\ Exit(1)
         /\ UNCHANGED <<allNodes, visitedNodes, depth, expanded, reExpanded,
                        oracleFaithful>>

\* one request of chooseNextGraphNode and what follows from its response
ChooseRespond ==
    /\ pc = "choose"
    /\ \E resp \in ChooseResponses(allNodes) :
          LET outcome == chooseNextGraphNode(attempts, resp)
          IN  /\ requests' = requests + 1
              /\ lastResp' = resp
              /\ CASE outcome = "return" ->
                        /\ opStatus' = "returned"
                        /\ opResult' = ParseOrEmptyArray(resp)
                        /\ nextNodes' = ParseOrEmptyArray(resp)
                        /\ HopBody(ParseOrEmptyArray(resp))
                        /\ UNCHANGED <<attempts, exhausted>>
                   [] outcome = "retry" ->
                        /\ attempts' = attempts + 1
                        /\ UNCHANGED <<pc, exitCode, opStatus, opResult, exhausted,
                                       queryVars, expanded, reExpanded,
                                       oracleFaithful>>
                   [] outcome = "exhausted" ->
                        /\ attempts' = attempts + 1
                        /\ opStatus' = "failed"
                        /\ exhausted' = TRUE
                        /\ Exit(1)
                        /\ UNCHANGED <<opResult, queryVars, expanded, reExpanded,
                                       oracleFaithful>>
                   [] outcome = "throw" ->
                        /\ opStatus' = "failed"
                        /\ Exit(1)
                        /\ UNCHANGED <<attempts, opResult, exhausted, queryVars,
                                       expanded, reExpanded, oracleFaithful>>
    /\ errorSeen' = (errorSeen \/ pc' = "exit")
    /\ UNCHANGED <<storeVars, indexVars, qEmbedding, chunkIndices, opKind,
                   chooseCalls, seedNodes, hopFrontier, fileVars, callVars>>
    /\ UNCHANGED asyncVars

\* the responses the request of llm_do_question_answer may come back with:
\* an answer "text" carrying provenance annotations, content from which no
\* annotation can be parsed, empty content, or an error
QAResponses ==
    {Resp("text", JsonOther), Resp("unparseable", JsonOther),
     Resp("empty", JsonOther), Resp("error", JsonOther)}

\* after the loop: chunkIndices, extractPDFData and chunkPDF, qaInput
Answer ==
    /\ pc = "answer"
    /\ chunkIndices' = ChunkIndicesOf(visitedNodes)
    /\ \/ /\ pc' = "qa"
          /\ requests' = 0
          /\ opKind' = "qa"
          /\ opStatus' = "pending"
          /\ UNCHANGED <<exitCode, attempts, lastResp, opResult>>
       \/ \* extractPDFData throws
          /\ Exit(1)
          /\ UNCHANGED opVars
    /\ errorSeen' = (errorSeen \/ pc' = "exit")
    /\ UNCHANGED <<storeVars, indexVars, qEmbedding, depth, allNodes,
                   visitedNodes, nextNodes, exhausted, traceVars, fileVars,
                   callVars>>
    /\ UNCHANGED asyncVars

\* llm_do_question_answer's request; then extractChunkIndices and exit(0)
QARespond ==
    /\ pc = "qa"
    /\ \E resp \in QAResponses :
          /\ requests' = requests + 1
          /\ lastResp' = resp
          /\ IF llm_do_question_answer(resp) = "return"
             THEN opStatus' = "returned" /\ Exit(0)
             ELSE opStatus' = "failed" /\ Exit(1)
    /\ errorSeen' = (errorSeen \/ opStatus' = "failed")
    /\ UNCHANGED <<storeVars, indexVars, queryVars, attempts, opKind, opResult,
                   exhausted, traceVars, fileVars, callVars>>
    /\ UNCHANGED asyncVars

(***************************************************************************)
(* main, index mode: indexPDF                                              *)
(***************************************************************************)
\* the arrays of entities extractEntities may be answered with
EntityAnswers == SeqsUpTo(Labels, MaxItems)

EntitiesResponses ==
    {Resp("json", JsonArray(a)) : a \in EntityAnswers}
    \cup {Resp("json", JsonOther), Resp("unparseable", JsonOther),
          Resp("empty", JsonOther), Resp("error", JsonOther)}

TripleUniverse ==
    {<<"RadioCity", "locatedIn", "India">>, <<"India", "locatedIn", "RadioCity">>}

\* the arrays of triples extractRDFTriples may be answered with
TripleAnswers == SeqsUpTo(TripleUniverse, MaxItems)

TriplesResponses ==
    {Resp("json", JsonArray(a)) : a \in TripleAnswers}
    \cup {Resp("json", JsonOther), Resp("unparseable", JsonOther),
          Resp("empty", JsonOther), Resp("error", JsonOther)}

AfterChunkErrorSameChunk(n) == n

\* catch (error) { console.error(...) } and the loop's i++
AfterChunkError(n) == n + 1

\* the quads of the triples of chunk n
RECURSIVE RelQuads(_, _)
RelQuads(triples, n) ==
    IF triples = << >> THEN << >>
    ELSE <<Quad(Head(triples)[1], Head(triples)[2], Head(triples)[3], ChunkName(n))>>
         \o RelQuads(Tail(triples), n)

\* the synonym step for one entity, after vectorStore.store
SynonymQuads(entries, entity, embedding, n) ==
    LET similarities == get_most_similar(entries, entity, embedding, SynonymK)
    IN  IF Len(similarities) > 0 /\ AtLeastThreshold(similarities[1].similarity)
        THEN <<Quad(entity, "is_synonym", similarities[1].text, ChunkName(n))>>
        ELSE << >>

\* main -i: indexPDF starts with extractPDFData and chunkPDF
MainIndex ==
    /\ pc = "main"
    /\ \/ pc' = "index_loop" /\ i' = 0 /\ UNCHANGED exitCode
       \/ \* extractPDFData throws
          Exit(1) /\ UNCHANGED i
    /\ errorSeen' = (pc' = "exit")
    /\ UNCHANGED <<storeVars, chunkEntities, queryVars, opVars, exhausted,
                   traceVars, fileVars, callVars>>
    /\ UNCHANGED asyncVars

\* for (let i = 0; i < max_chunks; i++): the call of extractEntities, or
\* the end of the loop
IndexLoop ==
    /\ pc = "index_loop"
    /\ IF i < NumChunks
       THEN /\ pc' = "entities"
            /\ attempts' = 0
            /\ requests' = 0
            /\ opKind' = "entities"
            /\ opStatus' = "pending"
            /\ UNCHANGED exitCode
       ELSE /\ pc' = "save"
            /\ opStatus' = "idle"
            /\ UNCHANGED <<exitCode, attempts, requests, opKind>>
    \* chunkEntities is local to one pass of the loop body
    /\ chunkEntities' = << >>
    /\ lastResp' = NoResp
    /\ opResult' = JsonArray(<< >>)
    /\ UNCHANGED <<storeVars, i, queryVars, exhausted, traceVars, errorSeen,
                   fileVars, callVars>>
    /\ UNCHANGED asyncVars

\* one request of extractEntities and what follows from its response
EntitiesRespond ==
    /\ pc = "entities"
    /\ \E resp \in EntitiesResponses :
          LET outcome == extractEntities(attempts, resp)
              value == ParseOrEmptyArray(resp)
          IN  /\ requests' = requests + 1
              /\ lastResp' = resp
              /\ CASE outcome = "return" ->
                        /\ opStatus' = "returned"
                        /\ opResult' = value
                        /\ IF value.isArray
                           THEN /\ chunkEntities' = value.items
                                /\ pc' = "entity"
                                /\ UNCHANGED i
                           ELSE \* chunkEntities is not iterable: TypeError
                                /\ i' = AfterChunkError(i)
                                /\ pc' = "index_loop"
                                /\ UNCHANGED chunkEntities
                        /\ UNCHANGED <<attempts, exhausted>>
                   [] outcome = "retry" ->
                        /\ attempts' = attempts + 1
                        /\ UNCHANGED <<pc, opStatus, opResult, exhausted, indexVars>>
                   [] outcome = "exhausted" ->
                        /\ attempts' = attempts + 1
                        /\ opStatus' = "failed"
                        /\ exhausted' = TRUE
                        /\ i' = AfterChunkError(i)
                        /\ pc' = "index_loop"
                        /\ UNCHANGED <<opResult, chunkEntities>>
                   [] outcome = "throw" ->
                        /\ opStatus' = "failed"
                        /\ i' = AfterChunkError(i)
                        /\ pc' = "index_loop"
                        /\ UNCHANGED <<attempts, opResult, exhausted, chunkEntities>>
    /\ errorSeen' = (errorSeen \/ pc' = "index_loop")
    /\ UNCHANGED <<exitCode, storeVars, queryVars, opKind, traceVars, fileVars,
                   callVars>>
    /\ UNCHANGED asyncVars

\* for (const entity of chunkEntities): getEmbedding, store, the synonym
\* step; after the last entity the call of extractRDFTriples, whose prompt
\* is the last reader of chunkEntities
IndexEntity ==
    /\ pc = "entity"
    /\ IF chunkEntities # << >>
       THEN /\ \/ \E e \in Embeddings :
                    LET entity == Head(chunkEntities)
                        entries == store(vectorStore, entity, e)
                    IN  /\ SimilarityDefined(entries, entity, e)
                        /\ vectorStore' = entries
                        /\ rdfStore' = addQuads(rdfStore,
                                                SynonymQuads(entries, entity, e, i))
                        /\ chunkEntities' = Tail(chunkEntities)
                        /\ UNCHANGED <<pc, i>>
               \/ \* getEmbedding throws
                  /\ i' = AfterChunkError(i)
                  /\ pc' = "index_loop"
                  /\ UNCHANGED <<storeVars, chunkEntities>>
            /\ opStatus' = "idle"
            /\ UNCHANGED <<attempts, requests, lastResp, opKind, opResult>>
       ELSE /\ pc' = "triples"
            /\ attempts' = 0
            /\ requests' = 0
            /\ opKind' = "triples"
            /\ opStatus' = "pending"
            /\ lastResp' = NoResp
            /\ opResult' = JsonArray(<< >>)
            /\ UNCHANGED <<storeVars, i, chunkEntities>>
    /\ errorSeen' = (errorSeen \/ pc' = "index_loop")
    /\ UNCHANGED <<exitCode, queryVars, exhausted, traceVars, fileVars, callVars>>
    /\ UNCHANGED asyncVars

\* one request of extractRDFTriples and what follows from its response
TriplesRespond ==
    /\ pc = "triples"
    /\ \E resp \in TriplesResponses :
          LET outcome == extractRDFTriples(attempts, resp)
              value == ParseOrEmptyObject(resp)
          IN  /\ requests' = requests + 1
              /\ lastResp' = resp
              /\ CASE outcome = "return" ->
                        /\ opStatus' = "returned"
                        /\ opResult' = value
                        /\ IF value.isArray
                           THEN /\ rdfStore' = addQuads(rdfStore, RelQuads(value.items, i))
                                /\ i' = i + 1
                           ELSE \* triples is not iterable: TypeError
                                /\ i' = AfterChunkError(i)
                                /\ UNCHANGED rdfStore
                        /\ UNCHANGED <<attempts, exhausted>>
                   [] outcome = "retry" ->
                        /\ attempts' = attempts + 1
                        /\ UNCHANGED <<opStatus, opResult, exhausted, i, rdfStore>>
                   [] outcome = "exhausted" ->
                        /\ attempts' = attempts + 1
                        /\ opStatus' = "failed"
                        /\ exhausted' = TRUE
                        /\ i' = AfterChunkError(i)
                        /\ UNCHANGED <<opResult, rdfStore>>
                   [] outcome = "throw" ->
                        /\ opStatus' = "failed"
                        /\ i' = AfterChunkError(i)
                        /\ UNCHANGED <<attempts, opResult, exhausted, rdfStore>>
              /\ pc' = IF outcome = "retry" THEN "triples" ELSE "index_loop"
    /\ errorSeen' = (errorSeen \/ opStatus' = "failed"
                        \/ (opStatus' = "returned" /\ ~opResult'.isArray))
    /\ UNCHANGED <<exitCode, vectorStore, chunkEntities, queryVars, opKind,
                   traceVars, fileVars, callVars>>
    /\ UNCHANGED asyncVars

\* main after indexPDF: vectorStore.save and saveRDFStore inside one try whose
\* catch only reports, then process.exit(0)
SaveStores ==
    /\ pc = "save"
    /\ \/ /\ vsFile' = save(vectorStore)
          /\ rdfFile' = saveRDFStore(rdfStore)
          /\ UNCHANGED errorSeen
       \/ \* vectorStore.save throws: saveRDFStore is not reached
          /\ errorSeen' = TRUE
          /\ UNCHANGED fileVars
       \/ \* saveRDFStore throws
          /\ vsFile' = save(vectorStore)
          /\ errorSeen' = TRUE
          /\ UNCHANGED rdfFile
    /\ Exit(0)
    /\ UNCHANGED <<storeVars, indexVars, queryVars, opVars, exhausted, traceVars,
                   callVars>>
    /\ UNCHANGED asyncVars

(***************************************************************************)
(* Specification                                                           *)
(***************************************************************************)
Next ==
    \/ MainUsage
    \/ MainQuery
    \/ Seed
    \/ LoopTest
    \/ ChooseRespond
    \/ Answer
    \/ QARespond
    \/ MainIndex
    \/ IndexLoop
    \/ EntitiesRespond
    \/ IndexEntity
    \/ TriplesRespond
    \/ SaveStores

Spec == Init /\ [][Next]_vars

(***************************************************************************)
(* The two stores call by call: any sequence of the operations of the      *)
(* VectorStore instance, or of the N3.Store and its two persistence        *)
(* functions, against a file the environment has left behind               *)
(***************************************************************************)
\* the texts store() is called with: the labels and the empty string
StoreLabels == Labels \cup {""}

\* the texts get_most_similar is called with
QueryLabels == StoreLabels \cup {Question}

\* the vectors cosineSimilarity is called with: the embeddings and a vector
\* of another length
Vectors == Embeddings \cup {<<1>>}

\* what an entry of a file found at VECTOR_STORE_PATH may be: its text a
\* label or empty, its embedding an array or not
FileEntryUniverse ==
    {FileEntry(l, e) :
        l \in {"RadioCity", ""},
        e \in {JsonArray(x) : x \in Embeddings} \cup {JsonOther}}

\* the files that may be found at VECTOR_STORE_PATH
VsFiles ==
    {VsFile(k, << >>) : k \in {"absent", "unreadable", "notJson", "noEntries"}}
    \cup {VsFile("entries", es) : es \in SeqsUpTo(FileEntryUniverse, MaxEntries)}

\* the lines a file found at RDF_STORE_PATH may hold
LineUniverse ==
    {RdfLine(TRUE, q) : q \in QuadUniverse} \cup {RdfLine(FALSE, RadioCityQuad)}

\* the files that may be found at RDF_STORE_PATH
RdfFiles ==
    {RdfFile(k, << >>) : k \in {"absent", "unreadable"}}
    \cup {RdfFile("text", ls) : ls \in SeqsUpTo(LineUniverse, MaxEntries)}

InitStores ==
    /\ \/ /\ pc = "vectorStore"
          /\ vsFile \in VsFiles
          /\ rdfFile = RdfFile("absent", << >>)
       \/ /\ pc = "rdfStore"
          /\ vsFile = VsFile("absent", << >>)
          /\ rdfFile \in RdfFiles
    /\ InitRun

\* vectorStore.store(text, embedding)
VsStore ==
    /\ pc = "vectorStore"
    /\ \E text \in StoreLabels, e \in Embeddings :
          /\ Len(vectorStore) < MaxStored
          /\ vectorStore' = store(vectorStore, text, e)
          /\ call' = [op |-> "store", text |-> text, embedding |-> e,
                      before |-> vectorStore]
    /\ UNCHANGED <<pc, rdfStore, fileVars, added, runVars>>
    /\ UNCHANGED asyncVars

\* vectorStore.get_most_similar(text, embedding, max_results): it changes no
\* store, so the sequence of calls is followed no further
VsMostSimilar ==
    /\ pc = "vectorStore"
    /\ pc' = "observed"
    /\ \E text \in QueryLabels, e \in Embeddings, k \in 0..MaxK :
          /\ SimilarityDefined(vectorStore, text, e)
          /\ call' = [op |-> "get_most_similar", text |-> text, embedding |-> e,
                      k |-> k,
                      result |-> get_most_similar(vectorStore, text, e, k)]
    /\ UNCHANGED <<storeVars, fileVars, added, runVars>>
    /\ UNCHANGED asyncVars

\* vectorStore.calcSimilarity(text1, text2)
VsCalcSimilarity ==
    /\ pc = "vectorStore"
    /\ pc' = "observed"
    /\ \E text1 \in StoreLabels, text2 \in StoreLabels :
          call' = [op |-> "calcSimilarity", text1 |-> text1, text2 |-> text2,
                   result |-> calcSimilarity(vectorStore, text1, text2),
                   before |-> vectorStore]
    /\ UNCHANGED <<storeVars, fileVars, added, runVars>>
    /\ UNCHANGED asyncVars

\* vectorStore.cosineSimilarity(vec1, vec2)
VsCosineSimilarity ==
    /\ pc = "vectorStore"
    /\ pc' = "observed"
    /\ \E vec1 \in Vectors, vec2 \in Vectors :
          call' = [op |-> "cosineSimilarity", vec1 |-> vec1, vec2 |-> vec2,
                   result |-> cosineSimilarityCall(vec1, vec2),
                   before |-> vectorStore]
    /\ UNCHANGED <<storeVars, fileVars, added, runVars>>
    /\ UNCHANGED asyncVars

\* vectorStore.getEmbedding(text)
VsGetEmbedding ==
    /\ pc = "vectorStore"
    /\ pc' = "observed"
    /\ \E text \in StoreLabels :
          call' = [op |-> "getEmbedding", text |-> text,
                   result |-> getEmbedding(vectorStore, text),
                   before |-> vectorStore]
    /\ UNCHANGED <<storeVars, fileVars, added, runVars>>
    /\ UNCHANGED asyncVars

\* vectorStore.save(filepath): the file is written, or writeFile fails
VsSave ==
    /\ pc = "vectorStore"
    /\ \/ /\ vsFile' = save(vectorStore)
          /\ call' = [op |-> "save", ok |-> TRUE]
       \/ /\ UNCHANGED vsFile
          /\ call' = [op |-> "save", ok |-> FALSE]
    /\ UNCHANGED <<pc, storeVars, rdfFile, added, runVars>>
    /\ UNCHANGED asyncVars

\* vectorStore.load(filepath)
VsLoad ==
    /\ pc = "vectorStore"
    /\ LET r == load(vectorStore, vsFile)
       IN  /\ vectorStore' = r.entries
           /\ call' = [op |-> "load", ok |-> r.ok, before |-> vectorStore]
    /\ UNCHANGED <<pc, rdfStore, fileVars, added, runVars>>
    /\ UNCHANGED asyncVars

\* rdfStore.addQuad(q)
RdfAdd ==
    /\ pc = "rdfStore"
    /\ Len(added) < MaxAdds
    /\ \E q \in QuadUniverse :
          /\ rdfStore' = addQuad(rdfStore, q)
          /\ added' = Append(added, q)
          /\ call' = [op |-> "addQuad", quad |-> q, before |-> rdfStore]
    /\ UNCHANGED <<pc, vectorStore, fileVars, runVars>>
    /\ UNCHANGED asyncVars

\* rdfStore.match(null, null, null): it changes no store, so the sequence
\* of calls is followed no further
RdfMatch ==
    /\ pc = "rdfStore"
    /\ pc' = "observed"
    /\ call' = [op |-> "match", result |-> rdfStore]
    /\ UNCHANGED <<storeVars, fileVars, added, runVars>>
    /\ UNCHANGED asyncVars

\* saveRDFStore(path): the file is written, or the write fails
RdfSave ==
    /\ pc = "rdfStore"
    /\ \/ /\ rdfFile' = saveRDFStore(rdfStore)
          /\ call' = [op |-> "saveRDFStore", ok |-> TRUE]
       \/ /\ UNCHANGED rdfFile
          /\ call' = [op |-> "saveRDFStore", ok |-> FALSE]
    /\ UNCHANGED <<pc, storeVars, vsFile, added, runVars>>
    /\ UNCHANGED asyncVars

\* loadRDFStore(path)
RdfLoad ==
    /\ pc = "rdfStore"
    /\ Len(added) + Len(rdfFile.lines) <= MaxAdds
    /\ LET r == loadRDFStore(rdfStore, rdfFile)
       IN  /\ rdfStore' = r.quads
           /\ added' = added \o MatchingQuads(rdfFile.lines)
           /\ call' = [op |-> "loadRDFStore", ok |-> r.ok, before |-> rdfStore]
    /\ UNCHANGED <<pc, vectorStore, fileVars, runVars>>
    /\ UNCHANGED asyncVars

NextStores ==
    \/ VsStore
    \/ VsMostSimilar
    \/ VsCalcSimilarity
    \/ VsCosineSimilarity
    \/ VsGetEmbedding
    \/ VsSave
    \/ VsLoad
    \/ RdfAdd
    \/ RdfMatch
    \/ RdfSave
    \/ RdfLoad

SpecStores == InitStores /\ [][NextStores]_vars

(***************************************************************************)
(* The context of the answer stage: llm_do_question_answer applied to any  *)
(* qaInput and budget                                                      *)
(***************************************************************************)
\* chunk lengths and budgets, small stand-ins for chunks of up to 500
\* characters and the budget of 20000
ChunkLengths == {1, 20, 27}

Budgets == {20, 40}

QAInputs ==
    SeqsUpTo({[chunk |-> l, index |-> n] : l \in ChunkLengths, n \in 0..(NumChunks - 1)},
             MaxInput)

InitAnswer ==
    /\ pc = "answer_stage"
    /\ vsFile = VsFile("absent", << >>)
    /\ rdfFile = RdfFile("absent", << >>)
    /\ InitRun

\* llm_do_question_answer(qaInput, question, max_characters) up to its request
PackContext ==
    /\ pc = "answer_stage"
    /\ pc' = "observed"
    /\ \E qaInput \in QAInputs, max_characters \in Budgets :
          LET r == BuildContext(qaInput, 0, << >>, max_characters)
          IN  call' = [op |-> "llm_do_question_answer", qaInput |-> qaInput,
                       max_characters |-> max_characters,
                       context |-> r.context, chunkIndices |-> r.chunkIndices]
    /\ UNCHANGED <<storeVars, fileVars, added, runVars>>
    /\ UNCHANGED asyncVars

NextAnswer == PackContext

SpecAnswer == InitAnswer /\ [][NextAnswer]_vars

(***************************************************************************)
(* The seed step of queryPDF on any loaded stores: stores of more entries  *)
(* than get_most_similar is asked for, an entry whose text is the question *)
(***************************************************************************)
\* entries of a loaded embedding store besides the filler entries
MaxSeedEntries == 3

FillerLabels ==
    <<"Label1", "Label2", "Label3", "Label4", "Label5", "Label6", "Label7",
      "Label8", "Label9", "Label10">>

\* ten entries that no fact is about, all with the same embedding
Fillers ==
    [k \in 1..Len(FillerLabels) |->
        [text |-> FillerLabels[k], embedding |-> <<1, 0>>]]

SeedEntryUniverse ==
    {[text |-> l, embedding |-> e] : l \in Labels \cup {Question}, e \in Embeddings}

SmallSeedStores ==
    {s \in SeqsUpTo(SeedEntryUniverse, MaxSeedEntries) :
        \A a, b \in 1..Len(s) : a # b => s[a].text # s[b].text}

\* the embedding stores the seed step runs on: built by store() calls, so
\* with distinct texts
SeedVectorStores ==
    SmallSeedStores
    \cup UNION {{SubSeq(s, 1, p) \o Fillers \o SubSeq(s, p + 1, Len(s)) :
                   p \in 0..Len(s)} : s \in SmallSeedStores}

QuestionQuad == Quad(Question, "locatedIn", "India", ChunkName(0))

SeedQuadUniverse ==
    {RadioCityQuad, Quad("India", "locatedIn", "RadioCity", ChunkName(1)),
     QuestionQuad}

\* the graph stores the seed step runs on
SeedRdfStores ==
    {s \in SeqsUpTo(SeedQuadUniverse, MaxFacts) :
        \A a, b \in 1..Len(s) : a < b => QuadRank(s[a]) < QuadRank(s[b])}

\* main -q has loaded the two stores from the files of an index run
InitSeed ==
    /\ pc = "seed"
    /\ vectorStore \in SeedVectorStores
    /\ rdfStore \in SeedRdfStores
    /\ vsFile = save(vectorStore)
    /\ rdfFile = saveRDFStore(rdfStore)
    /\ InitLocals

NextSeed == Seed

SpecSeed == InitSeed /\ [][NextSeed]_vars

(***************************************************************************)
(* llm_do_initial_pass: the chunks analysed batch by batch                 *)
(***************************************************************************)
\* chunks.length is at most PassChunks
PassChunks == 4

\* the batchSize argument of llm_do_initial_pass
batchSize == 2

\* what the request of analyzeChunk may come back with: content that parses
\* to an object, to null, that does not parse, no content, or an error
AnalyzeResponses == {"object", "null", "unparseable", "empty", "error"}

\* analyzeChunk on one response, att failed parses before it: "empty" is
\* parsed as '{}'; null takes no chunk_index, a TypeError, which like an API
\* error is rethrown; a SyntaxError is retried until the third; a value
\* returned is the parsed object with chunk_index set to the chunkIndex
\* argument
analyzeChunk(att, resp) ==
    IF resp \in {"error", "null"} THEN "throw"
    ELSE IF resp = "unparseable"
         THEN (IF att + 1 = MaxAttempts THEN "throw" ELSE "retry")
         ELSE "return"

\* a chunk whose analyzeChunk call has not been made; settledAs is the place
\* of the call among the calls that have settled, 0 until it has
IdleTask == [status |-> "idle", attempts |-> 0, chunk_index |-> -1, settledAs |-> 0]

chunkIndexWithinBatch(n, batchIndex) == batchIndex

\* const chunkIndex = i + batchIndex
chunkIndex(n, batchIndex) == n + batchIndex

\* the positions in tasks of chunks.slice(n, n + batchSize)
BatchOf(ts, n) == {k \in 1..Len(ts) : n < k /\ k <= n + batchSize}

\* batch.map(...): analyzeChunk is called for every chunk of the batch, and
\* each call runs up to its request
StartBatch(ts, n) ==
    [k \in 1..Len(ts) |->
        IF k \in BatchOf(ts, n)
        THEN [ts[k] EXCEPT !.status = "pending",
                           !.chunk_index = chunkIndex(n, k - 1 - n)]
        ELSE ts[k]]

BatchFulfilledByAny(ts, n) ==
    \E k \in BatchOf(ts, n) : ts[k].status = "fulfilled"

\* Promise.all(batchPromises) resolves: every promise of the batch has
BatchFulfilled(ts, n) ==
    \A k \in BatchOf(ts, n) : ts[k].status = "fulfilled"

\* batchResults, in the order of batchPromises
RECURSIVE BatchResults(_, _, _)
BatchResults(ts, n, k) ==
    IF k > Len(ts) \/ k > n + batchSize THEN << >>
    ELSE <<[chunk_index |-> ts[k].chunk_index]>> \o BatchResults(ts, n, k + 1)

\* the chunks are given and no chunk is being analysed
InitBatch ==
    /\ pc = "pass"
    /\ vsFile = VsFile("absent", << >>)
    /\ rdfFile = RdfFile("absent", << >>)
    /\ vectorStore = << >>
    /\ rdfStore = << >>
    /\ InitMain
    /\ \E n \in 0..PassChunks : tasks = [k \in 1..n |-> IdleTask]
    /\ batchI = 0
    /\ analyses = << >>
    /\ passStatus = "idle"
    /\ callers = << >>
    /\ storeArgs = {}
    /\ quadArgs = {}

passFrame == <<storeVars, indexVars, queryVars, opVars, exhausted, traceVars,
               fileVars, callVars, callerVars>>

\* the call of llm_do_initial_pass up to its first await, or to its return
\* when there is no chunk
PassBegin ==
    /\ pc = "pass"
    /\ passStatus = "idle"
    /\ batchI' = 0
    /\ analyses' = << >>
    /\ IF 0 < Len(tasks)
       THEN /\ tasks' = StartBatch(tasks, 0)
            /\ passStatus' = "running"
            /\ UNCHANGED pc
       ELSE /\ passStatus' = "returned"
            /\ pc' = "pass_done"
            /\ UNCHANGED tasks
    /\ UNCHANGED <<exitCode, errorSeen, passFrame>>

\* the response to the request of the analyzeChunk call of chunk k - 1, and
\* what runs before the next response is taken: the retry, or the promise
\* settles and with it, when it does, Promise.all; then the loop goes on
\* with the next batch, or returns, or the catch of llm_do_initial_pass
\* rethrows and the catch of main ends the process
AnalyzeRespond(k) ==
    /\ pc = "pass"
    /\ passStatus = "running"
    /\ tasks[k].status = "pending"
    /\ \E resp \in AnalyzeResponses :
          LET outcome == analyzeChunk(tasks[k].attempts, resp)
              place == 1 + Cardinality({j \in 1..Len(tasks) :
                                           tasks[j].settledAs > 0})
              settled == [tasks EXCEPT ![k].status = "fulfilled",
                                       ![k].settledAs = place]
          IN  CASE outcome = "retry" ->
                     /\ tasks' = [tasks EXCEPT ![k].attempts = @ + 1]
                     /\ UNCHANGED <<pc, exitCode, errorSeen, batchI, analyses,
                                    passStatus>>
                [] outcome = "throw" ->
                     /\ tasks' = [tasks EXCEPT ![k].status = "rejected",
                                               ![k].settledAs = place]
                     /\ passStatus' = "thrown"
                     /\ errorSeen' = TRUE
                     /\ Exit(1)
                     /\ UNCHANGED <<batchI, analyses>>
                [] outcome = "return" ->
                     IF BatchFulfilled(settled, batchI)
                     THEN /\ analyses' =
                               analyses \o BatchResults(settled, batchI, batchI + 1)
                          /\ batchI' = batchI + batchSize
                          /\ IF batchI' < Len(tasks)
                             THEN /\ tasks' = StartBatch(settled, batchI')
                                  /\ UNCHANGED <<pc, passStatus>>
                             ELSE /\ tasks' = settled
                                  /\ passStatus' = "returned"
                                  /\ pc' = "pass_done"
                          /\ UNCHANGED <<exitCode, errorSeen>>
                     ELSE /\ tasks' = settled
                          /\ UNCHANGED <<pc, exitCode, errorSeen, batchI,
                                         analyses, passStatus>>
    /\ UNCHANGED passFrame

NextBatch ==
    \/ PassBegin
    \/ \E k \in 1..Len(tasks) : AnalyzeRespond(k)

SpecBatch == InitBatch /\ [][NextBatch]_vars

(***************************************************************************)
(* The graph store saved by one run and loaded by the next                 *)
(***************************************************************************)
\* the objects of the triples extractRDFTriples may return: a label, the
\* empty text, a text with double quotes
RoundTripObjects == {"India", "", QuotedLabel}

\* facts indexPDF can add
RoundTripQuads ==
    {Quad(s, "locatedIn", o, ChunkName(n)) :
        s \in {"RadioCity"}, o \in RoundTripObjects, n \in 0..(NumChunks - 1)}

\* the graph stores indexPDF can build of them
RoundTripStores ==
    {addQuads(<< >>, qs) : qs \in SeqsUpTo(RoundTripQuads, MaxFacts)}

InitRoundTrip ==
    /\ pc = "rt_save"
    /\ vsFile = VsFile("absent", << >>)
    /\ rdfFile = RdfFile("absent", << >>)
    /\ vectorStore = << >>
    /\ rdfStore \in RoundTripStores
    /\ InitLocals

\* main -i after indexPDF: saveRDFStore; the process ends, and the rdfStore
\* of the next process is empty
RtSave ==
    /\ pc = "rt_save"
    /\ rdfFile' = saveRDFStore(rdfStore)
    /\ call' = [op |-> "saveRDFStore", ok |-> TRUE, before |-> rdfStore]
    /\ rdfStore' = << >>
    /\ pc' = "rt_load"
    /\ UNCHANGED <<vectorStore, vsFile, added, runVars, asyncVars>>

\* main -q: loadRDFStore on the file the index run has saved
RtLoad ==
    /\ pc = "rt_load"
    /\ rdfStore' = loadRDFStore(rdfStore, rdfFile).quads
    /\ pc' = "rt_done"
    /\ UNCHANGED <<vectorStore, fileVars, callVars, runVars, asyncVars>>

NextRoundTrip ==
    \/ RtSave
    \/ RtLoad

SpecRoundTrip == InitRoundTrip /\ [][NextRoundTrip]_vars

(***************************************************************************)
(* The loop body of indexPDF run by several callers on the two stores:     *)
(* store, get_most_similar and addQuad are synchronous, so a caller is     *)
(* interleaved with the others at its awaits only                          *)
(***************************************************************************)
NumCallers == 2

\* caller c runs the body for chunk c - 1 and awaits extractEntities
NewCaller == [pc |-> "entities", left |-> 0]

InitCallers ==
    /\ pc = "callers"
    /\ vsFile = VsFile("absent", << >>)
    /\ rdfFile = RdfFile("absent", << >>)
    /\ vectorStore = << >>
    /\ rdfStore = << >>
    /\ InitMain
    /\ InitPass
    /\ callers = [c \in 1..NumCallers |-> NewCaller]
    /\ storeArgs = {}
    /\ quadArgs = {}

callersFrame == <<pc, exitCode, indexVars, queryVars, opVars, exhausted,
                  traceVars, errorSeen, fileVars, callVars, tasks, batchI,
                  analyses, passStatus>>

\* await extractEntities(chunk) ends: with an array, or with a value that is
\* not iterable or an error, which the catch of the body reports; of the
\* array its length is drawn here and each entity when the loop reaches it
CallerEntities(c) ==
    /\ callers[c].pc = "entities"
    /\ \/ \E n \in 0..MaxItems :
             callers' = [callers EXCEPT ![c].pc = "entity", ![c].left = n]
       \/ callers' = [callers EXCEPT ![c].pc = "done"]
    /\ UNCHANGED <<storeVars, storeArgs, quadArgs, callersFrame>>

\* await getEmbedding(entity) ends: store, get_most_similar and the addQuad
\* of the synonym, up to the next await; after the last entity the request
\* of extractRDFTriples
CallerEntity(c) ==
    /\ callers[c].pc = "entity"
    /\ IF callers[c].left > 0
       THEN \/ \E entity \in Labels, e \in Embeddings :
                 LET entries == store(vectorStore, entity, e)
                     synQuads == SynonymQuads(entries, entity, e, c - 1)
                 IN  /\ SimilarityDefined(entries, entity, e)
                     /\ vectorStore' = entries
                     /\ rdfStore' = addQuads(rdfStore, synQuads)
                     /\ callers' = [callers EXCEPT ![c].left = @ - 1]
                     /\ storeArgs' =
                          storeArgs \cup {[text |-> entity, embedding |-> e]}
                     /\ quadArgs' = quadArgs \cup Range(synQuads)
            \/ \* getEmbedding throws
               /\ callers' = [callers EXCEPT ![c].pc = "done"]
               /\ UNCHANGED <<storeVars, storeArgs, quadArgs>>
       ELSE /\ callers' = [callers EXCEPT ![c].pc = "triples"]
            /\ UNCHANGED <<storeVars, storeArgs, quadArgs>>
    /\ UNCHANGED callersFrame

\* the arrays of triples a caller is answered with: each triple at most once
CallerTripleAnswers == {a \in TripleAnswers : NoRepeat(a)}

\* await extractRDFTriples(chunk, chunkEntities) ends: the addQuad of every
\* triple, or the catch of the body
CallerTriples(c) ==
    /\ callers[c].pc = "triples"
    /\ \/ \E a \in CallerTripleAnswers :
             /\ rdfStore' = addQuads(rdfStore, RelQuads(a, c - 1))
             /\ callers' = [callers EXCEPT ![c].pc = "done"]
             /\ quadArgs' = quadArgs \cup Range(RelQuads(a, c - 1))
       \/ /\ callers' = [callers EXCEPT ![c].pc = "done"]
          /\ UNCHANGED <<rdfStore, quadArgs>>
    /\ UNCHANGED <<vectorStore, storeArgs, callersFrame>>

NextCallers ==
    \/ \E c \in 1..NumCallers : CallerEntities(c)
    \/ \E c \in 1..NumCallers : CallerEntity(c)
    \/ \E c \in 1..NumCallers : CallerTriples(c)

SpecCallers == InitCallers /\ [][NextCallers]_vars

(***************************************************************************)
(* Properties                                                              *)
(***************************************************************************)
RetryOps == {"choose", "entities", "triples"}

Parsed(kind, resp) ==
    IF kind = "triples" THEN ParseOrEmptyObject(resp) ELSE ParseOrEmptyArray(resp)

StoredNodes == {GraphNode(q) : q \in Range(rdfStore)}

HasCycle ==
    \E a, b \in Range(rdfStore) :
        a # b /\ a.object = b.subject /\ b.object = a.subject

\* C1: whatever the graph, the seed frontier and the oracle's answers, the
\* traversal loop makes at most 3 hops: the hop counter never exceeds 3, the
\* relevance oracle is called for at most 3 frontiers, one call per hop, and
\* no call is made once 3 hops are done.
C1_TraversalBounded ==
    /\ depth <= 3
    /\ chooseCalls <= 3
    /\ pc = "choose" => (depth <= 2 /\ chooseCalls = depth + 1)
    /\ pc \in {"loop", "answer", "qa"} => chooseCalls = depth

\* The loop has stopped at the depth limit, on a graph with a cycle, with
\* nodes still on the frontier.
C1_Witness ==
    /\ pc = "answer"
    /\ depth = 3
    /\ chooseCalls = 3
    /\ allNodes # << >>
    /\ HasCycle

\* C2: visitedNodes never holds two nodes equal on all four fields, every
\* visited node is a fact of the graph store, and so visitedNodes is never
\* longer than the number of distinct facts of the store.
C2_VisitedDistinct ==
    /\ NoRepeat(visitedNodes)
    /\ Range(visitedNodes) \subseteq StoredNodes
    /\ Len(visitedNodes) <= Cardinality(Range(rdfStore))

\* A hop has selected two different nodes; a visited fact was returned by
\* both queries of the first and by the expansion of the second.
C2_Witness ==
    /\ pc = "loop"
    /\ \E a, b \in Range(nextNodes.items) :
          /\ a # b
          /\ \E q \in Range(rdfStore) :
                /\ InSeq(matchObject(rdfStore, a.value), q)
                /\ InSeq(matchSubject(rdfStore, a.subject), q)
                /\ InSeq(QueryNodes(rdfStore, b), q)
                /\ InSeq(visitedNodes, GraphNode(q))

\* C3: every fact is expanded at most once during a query, the facts of the
\* seed frontier included (stated for answers that select distinct nodes of
\* the frontier).
C3_ExpandedAtMostOnce == oracleFaithful => ~reExpanded

\* C4: the chunk indices handed to the answer stage are the distinct chunk
\* ids of the visited nodes, each exactly once.
C4_ResultDistinct ==
    pc = "qa" =>
        /\ NoRepeat(chunkIndices)
        /\ Range(chunkIndices) = {ChunkIndex(n.chunk) : n \in Range(visitedNodes)}

\* The scenario of C5: the graph holds only the RadioCity fact, embeddings
\* are stored for RadioCity and India, and the question's embedding is that
\* of RadioCity.
RadioCityScenario ==
    /\ rdfStore = <<RadioCityQuad>>
    /\ {e.text : e \in Range(vectorStore)} = {"RadioCity", "India"}
    /\ \E k \in 1..Len(vectorStore) :
          vectorStore[k].text = "RadioCity" /\ vectorStore[k].embedding = qEmbedding

\* C5: in that scenario the seed frontier holds the RadioCity fact and the
\* result at termination is {chunk_0}, whatever the oracle selects.
C5_EndToEnd ==
    RadioCityScenario =>
        /\ InSeq(seedNodes, GraphNode(RadioCityQuad))
        /\ pc = "qa" => Range(chunkIndices) = {0}

\* C6: at every hop the nodes handed to the expansion step are among the
\* candidates given to the relevance oracle.
C6_SelectionWithinFrontier ==
    Range(nextNodes.items) \subseteq Range(hopFrontier)

\* C7: a call of chooseNextGraphNode, extractEntities or extractRDFTriples
\* issues at most 3 requests; while it runs every response so far failed to
\* parse; it returns on the first response that parses, with the value parsed
\* from it; after the third parse failure it has failed and returns nothing.
C7_BoundedRetry ==
    opKind \in RetryOps =>
        /\ requests <= 3
        /\ opStatus = "pending" => (attempts < 3 /\ requests = attempts)
        /\ opStatus = "returned" =>
              /\ requests = attempts + 1
              /\ lastResp.kind \in {"json", "empty"}
              /\ opResult = Parsed(opKind, lastResp)
        /\ opStatus = "failed" =>
              \/ lastResp.kind = "unparseable" /\ attempts = 3 /\ requests = 3
              \/ lastResp.kind = "error" /\ requests = attempts + 1
        /\ attempts = 3 => opStatus \notin {"pending", "returned"}

\* chooseNextGraphNode has returned on its third request, after two
\* responses that did not parse.
C7_Witness ==
    /\ opKind = "choose"
    /\ opStatus = "returned"
    /\ attempts = 2
    /\ requests = 3

C9_ArrayRequired ==
    (opKind = "choose" /\ opStatus = "returned") => opResult.isArray

\* an oracle call uses up its retry budget in this step
ExhaustsNow ==
    /\ opStatus' = "failed"
    /\ attempts' = MaxAttempts
    /\ requests' = requests + 1

C11_ErrorsExitOne ==
    /\ (pc = "exit" /\ errorSeen) => exitCode = 1
    /\ exitCode = 0 => ~errorSeen

C13_LabelsUnique ==
    \A a, b \in 1..Len(vectorStore) :
        a # b => vectorStore[a].text # vectorStore[b].text

\* C14: store(text, e2) on a store that has an entry for text leaves the
\* entry sequence as it was; on a store without one it appends exactly the
\* entry (text, e2) at the end.
C14_StoreFrame ==
    call.op = "store" =>
        IF \E k \in 1..Len(call.before) : call.before[k].text = call.text
        THEN vectorStore = call.before
        ELSE vectorStore =
                 call.before \o <<[text |-> call.text, embedding |-> call.embedding]>>

\* store was called for a text already stored, with another embedding, on a
\* store of two entries.
C14_Witness ==
    /\ call.op = "store"
    /\ Len(call.before) = 2
    /\ call.before[1].text = call.text
    /\ call.before[1].embedding # call.embedding

\* the entries whose text differs from the text of the last call
OtherEntries == {k \in 1..Len(vectorStore) : vectorStore[k].text # call.text}

\* C15: get_most_similar(t, e, k) never returns an entry with text t; each
\* result is an entry with another text with its similarity to e; and when k
\* leaves room for all of them, every entry with another text is returned,
\* whatever its embedding.
C15_SelfExclusion ==
    call.op = "get_most_similar" =>
        /\ \A j \in 1..Len(call.result) :
              /\ call.result[j].text # call.text
              /\ \E k \in OtherEntries :
                    /\ call.result[j].text = vectorStore[k].text
                    /\ call.result[j].similarity =
                         cosineSimilarity(vectorStore[k].embedding, call.embedding)
        /\ Cardinality(OtherEntries) <= call.k =>
              \A k \in OtherEntries :
                  \E j \in 1..Len(call.result) :
                      call.result[j].text = vectorStore[k].text

\* The query text is stored, another entry has the very same embedding, which
\* is also the query embedding, and that other entry is returned first.
C15_Witness ==
    /\ call.op = "get_most_similar"
    /\ \E a, b \in 1..Len(vectorStore) :
          /\ vectorStore[a].text = call.text
          /\ vectorStore[b].text # call.text
          /\ vectorStore[a].embedding = call.embedding
          /\ vectorStore[b].embedding = call.embedding
          /\ Len(call.result) > 0
          /\ call.result[1].text = vectorStore[b].text

SameCos(x, y) == ~CosLess(x, y) /\ ~CosLess(y, x)

\* the place of candidate n in the ranking: after every candidate of greater
\* similarity and after the earlier candidates of equal similarity
Rank(c, n) ==
    1 + Cardinality({j \in 1..Len(c) : CosLess(c[n].similarity, c[j].similarity)})
      + Cardinality({j \in 1..(n - 1) : SameCos(c[j].similarity, c[n].similarity)})

\* C16: get_most_similar returns min(k, number of entries with another
\* text) results, in non-increasing similarity, entries of equal similarity
\* in insertion order; on an empty store it returns the empty sequence.
C16_Ranking ==
    call.op = "get_most_similar" =>
        LET c == Candidates(vectorStore, call.text, call.embedding)
            n == IF call.k < Len(c) THEN call.k ELSE Len(c)
        IN  /\ Len(call.result) = n
            /\ Len(c) = Cardinality(OtherEntries)
            /\ \A m \in 1..Len(c) :
                  Rank(c, m) <= n => call.result[Rank(c, m)] = c[m]
            /\ \A j \in 1..(Len(call.result) - 1) :
                  ~CosLess(call.result[j].similarity, call.result[j + 1].similarity)
            /\ vectorStore = << >> => call.result = << >>

\* Three entries A, B, C, none with the query text, A and C of equal
\* similarity, B of smaller similarity, k = 2: the result is A, C.
C16_Witness ==
    /\ call.op = "get_most_similar"
    /\ call.k = 2
    /\ Len(vectorStore) = 3
    /\ Cardinality(OtherEntries) = 3
    /\ LET c == Candidates(vectorStore, call.text, call.embedding)
       IN  /\ SameCos(c[1].similarity, c[3].similarity)
           /\ CosLess(c[2].similarity, c[1].similarity)
           /\ call.result = <<c[1], c[3]>>

\* the file has no array-valued entries field or holds an invalid entry
InvalidVsFile ==
    \/ vsFile.kind = "noEntries"
    \/ /\ vsFile.kind = "entries"
       /\ \E k \in 1..Len(vsFile.entries) :
             vsFile.entries[k].text = "" \/ ~vsFile.entries[k].embedding.isArray

\* C17: load of a file without an array-valued entries field, or with an
\* entry whose text is empty or whose embedding is not an array, throws and
\* leaves the entries as they were before the call.
C17_LoadAllOrNothing ==
    (call.op = "load" /\ InvalidVsFile) =>
        (~call.ok /\ vectorStore = call.before)

\* load has thrown on a file whose first entry is valid and whose second is
\* not, on a store that held an entry.
C17_Witness ==
    /\ call.op = "load"
    /\ ~call.ok
    /\ vsFile.kind = "entries"
    /\ Len(vsFile.entries) = 2
    /\ ValidEntry(vsFile.entries[1])
    /\ ~ValidEntry(vsFile.entries[2])
    /\ call.before # << >>
    /\ vectorStore = call.before

\* C18: with no file at its path, load returns and leaves the embedding
\* store empty; loadRDFStore returns and leaves the graph store as it was.
C18_MissingFile ==
    /\ (call.op = "load" /\ vsFile.kind = "absent") =>
          (call.ok /\ vectorStore = << >>)
    /\ (call.op = "loadRDFStore" /\ rdfFile.kind = "absent") =>
          (call.ok /\ rdfStore = call.before)

\* load has returned with no file at its path, on a store that held
\* entries, and the store is empty.
C18_Witness ==
    /\ call.op = "load"
    /\ vsFile.kind = "absent"
    /\ call.ok
    /\ call.before # << >>
    /\ vectorStore = << >>

\* C19: whatever texts the entries have, the empty string included, the
\* file save writes is loaded by a fresh store without error, into the same
\* entries in the same order.
C19_RoundTrip ==
    LET r == load(<< >>, save(vectorStore))
    IN  r.ok /\ r.entries = vectorStore

\* C20: the chunks packed into the answer context are a prefix of qaInput
\* in its order, packing stops at the first chunk that would exceed the
\* budget, and the packed context is never longer than the budget.
C20_ContextPacking ==
    call.op = "llm_do_question_answer" =>
        LET n == Len(call.chunkIndices)
        IN  /\ n <= Len(call.qaInput)
            /\ \A j \in 1..n : call.chunkIndices[j] = call.qaInput[j].index
            /\ n < Len(call.qaInput) =>
                  call.context + call.qaInput[n + 1].chunk > call.max_characters
            /\ call.context <= call.max_characters

\* the positions of main between the end of loading and the end of queryPDF
QueryPhase == {"seed", "loop", "choose", "answer", "qa"}

\* C22: the query phase never mutates the stores: no step from the end of
\* loading to the end of queryPDF changes the entry sequence of the
\* embedding store or the facts of the graph store.
C22_QueryReadOnly ==
    [][(pc \in QueryPhase) => (UNCHANGED <<vectorStore, rdfStore>>)]_vars

\* A query has run its three hops and the answer stage to exit status 0 on
\* stores that hold entries and facts.
C22_Witness ==
    /\ pc = "exit"
    /\ exitCode = 0
    /\ opKind = "qa"
    /\ depth = 3
    /\ visitedNodes # << >>
    /\ vectorStore # << >>
    /\ rdfStore # << >>

LineMatches(line) == line.matches

\* C23: loading a text never fails because of what its lines hold: the
\* store then holds, each once, the facts it held and the fact of every line
\* that matches the pattern, and nothing else; the lines that do not match
\* change nothing: the store is the one that loading the matching lines alone
\* gives.
C23_LenientLoad ==
    (call.op = "loadRDFStore" /\ rdfFile.kind = "text") =>
        /\ call.ok
        /\ NoRepeat(rdfStore)
        /\ Range(rdfStore) =
             Range(call.before)
               \cup {l.quad : l \in {x \in Range(rdfFile.lines) : x.matches}}
        /\ rdfStore =
             loadRDFStoreFromText(call.before, SelectSeq(rdfFile.lines, LineMatches))

\* A text whose first line does not match and whose second line holds a fact
\* that the store lacked has been loaded into a store that held a fact.
C23_Witness ==
    /\ call.op = "loadRDFStore"
    /\ rdfFile.kind = "text"
    /\ Len(rdfFile.lines) = 2
    /\ ~rdfFile.lines[1].matches
    /\ rdfFile.lines[2].matches
    /\ call.before # << >>
    /\ ~InSeq(call.before, rdfFile.lines[2].quad)
    /\ InSeq(rdfStore, rdfFile.lines[2].quad)

\* the embedding of the first entry of the store with the given text
StoredEmbedding(text) ==
    LET k == CHOOSE j \in 1..Len(vectorStore) :
                 /\ vectorStore[j].text = text
                 /\ \A h \in 1..(j - 1) : vectorStore[h].text # text
    IN  vectorStore[k].embedding

IsStored(text) == \E k \in 1..Len(vectorStore) : vectorStore[k].text = text

\* C29: calcSimilarity throws when either text is not stored and otherwise
\* returns the cosine similarity of the two stored embeddings;
\* cosineSimilarity throws exactly when its two vectors differ in length;
\* getEmbedding returns null for a text that is not stored, the stored
\* embedding otherwise, and never throws; each is a single call that leaves
\* the entries as they were.
C29_LookupErrors ==
    /\ call.op = "calcSimilarity" =>
          /\ vectorStore = call.before
          /\ IF IsStored(call.text1) /\ IsStored(call.text2)
             THEN /\ call.result.error = "none"
                  /\ call.result.value =
                       cosineSimilarity(StoredEmbedding(call.text1),
                                        StoredEmbedding(call.text2))
             ELSE call.result.error = "not found in store"
    /\ call.op = "cosineSimilarity" =>
          /\ vectorStore = call.before
          /\ IF Len(call.vec1) # Len(call.vec2)
             THEN call.result.error = "Vectors must have the same length"
             ELSE call.result.error = "none"
    /\ call.op = "getEmbedding" =>
          /\ vectorStore = call.before
          /\ IF IsStored(call.text)
             THEN /\ call.result.found
                  /\ call.result.embedding = StoredEmbedding(call.text)
             ELSE ~call.result.found

\* calcSimilarity has thrown for a first text that is stored and a second
\* that is not.
C29_Witness ==
    /\ call.op = "calcSimilarity"
    /\ IsStored(call.text1)
    /\ ~IsStored(call.text2)
    /\ call.result.error = "not found in store"
    /\ vectorStore = call.before

\* the entries get_most_similar ranks for the question
SeedCandidates == {k \in 1..Len(vectorStore) : vectorStore[k].text # Question}

SeedSimilarity(k) == cosineSimilarity(vectorStore[k].embedding, qEmbedding)

\* the place of entry k in the ranking: after the entries of greater
\* similarity and the earlier entries of equal similarity
SeedRank(k) ==
    1 + Cardinality({j \in SeedCandidates :
                        CosLess(SeedSimilarity(k), SeedSimilarity(j))})
      + Cardinality({j \in SeedCandidates :
                        j < k /\ SameCos(SeedSimilarity(j), SeedSimilarity(k))})

\* the place in the ranking of the entry with the given text
LabelSeedRank(l) ==
    SeedRank(CHOOSE k \in SeedCandidates : vectorStore[k].text = l)

\* the texts of the SeedK best ranked entries
SeedLabels ==
    {vectorStore[k].text : k \in {j \in SeedCandidates : SeedRank(j) <= SeedK}}

\* C25: the frontier the seed step builds holds exactly the facts whose
\* subject is the text of one of the 10 best ranked entries for the question
\* embedding, one node per fact, the facts of a better ranked entry before
\* those of a worse ranked one; no seed has the question text as subject,
\* even if an entry and a fact have it.
C25_SeedFrontier ==
    pc = "loop" =>
        /\ allNodes = seedNodes
        /\ Range(allNodes) =
             {GraphNode(q) : q \in {x \in Range(rdfStore) : x.subject \in SeedLabels}}
        /\ NoRepeat(allNodes)
        /\ \A a, b \in 1..Len(allNodes) :
              a < b => LabelSeedRank(allNodes[a].subject)
                         <= LabelSeedRank(allNodes[b].subject)
        /\ \A a \in 1..Len(allNodes) : allNodes[a].subject # Question
        /\ Cardinality(SeedLabels) <= SeedK

\* The store holds 13 entries, one of them with the question as its text
\* and a fact about it; the facts of one label are seeds, and a label that
\* has a fact is ranked after the tenth and gives no seed.
C25_Witness ==
    /\ pc = "loop"
    /\ Len(vectorStore) = 13
    /\ allNodes # << >>
    /\ \E k \in 1..Len(vectorStore) : vectorStore[k].text = Question
    /\ InSeq(rdfStore, QuestionQuad)
    /\ \E k \in SeedCandidates :
          /\ SeedRank(k) > SeedK
          /\ \E q \in Range(rdfStore) : q.subject = vectorStore[k].text

\* C27: a query sends the relevance oracle at most 9 requests, 3 hops of at
\* most 3 requests each: chooseNextGraphNode is called at most 3 times, a
\* call begins with no request sent, every request is counted in the call
\* that sends it, and a call sends at most 3.
C27_RequestsBounded ==
    [][/\ chooseCalls' <= MaxDepth + 1
       /\ (opKind' = "choose") => (requests' <= MaxAttempts)
       /\ (pc = "choose") =>
             (requests' = requests + 1 /\ chooseCalls' = chooseCalls)
       /\ (chooseCalls' # chooseCalls) =>
             (/\ chooseCalls' = chooseCalls + 1
              /\ requests' = 0
              /\ pc' = "choose")
       /\ (opKind = "choose" /\ pc # "choose" /\ requests' # requests) =>
             (requests' = 0 /\ pc' \in {"choose", "qa"})]_vars

\* The third hop has been made on the third request of its call, the last
\* request the retry budget allows.
C27_Witness ==
    /\ pc = "loop"
    /\ depth = MaxDepth + 1
    /\ chooseCalls = MaxDepth + 1
    /\ requests = MaxAttempts
    /\ attempts = MaxAttempts - 1
    /\ opStatus = "returned"

\* the facts the two store queries return for the selected nodes
HopCandidates(selected) ==
    {GraphNode(q) :
        q \in {x \in Range(rdfStore) :
                  \E n \in selected : x.object = n.value \/ x.subject = n.subject}}

\* C24: a hop appends to visitedNodes exactly the candidates it had not
\* visited, each once, and these are the next frontier; the candidates are
\* the facts whose object is the value of a selected node or whose subject is
\* the subject of a selected node.
C24_NextFrontier ==
    [][(pc = "choose" /\ pc' = "loop") =>
          /\ Range(allNodes') =
               HopCandidates(Range(nextNodes'.items)) \ Range(visitedNodes)
          /\ NoRepeat(allNodes')
          /\ visitedNodes' = visitedNodes \o allNodes'
          /\ depth' = depth + 1]_vars

\* The second hop has selected two nodes; it found new facts and a candidate
\* that an earlier hop had visited.
C24_Witness ==
    /\ pc = "loop"
    /\ depth = 2
    /\ Len(nextNodes.items) = 2
    /\ allNodes # << >>
    /\ Len(visitedNodes) > Len(allNodes)
    /\ \E k \in 1..(Len(visitedNodes) - Len(allNodes)) :
          visitedNodes[k] \in HopCandidates(Range(nextNodes.items))

\* C26: with an empty frontier the loop is left for the answer stage, and
\* from then on no call of the relevance oracle is made and visitedNodes
\* stays as it is; the relevance oracle is never called with an empty
\* frontier.
C26_StopOnEmptyFrontier ==
    [][/\ (pc = "loop" /\ allNodes = << >>) =>
             (pc' = "answer" /\ UNCHANGED <<visitedNodes, chooseCalls, depth>>)
       /\ pc \in {"answer", "qa"} =>
             (pc' # "choose" /\ UNCHANGED <<visitedNodes, chooseCalls, depth>>)
       /\ pc' = "choose" => allNodes' # << >>]_vars

\* The loop was left after two hops, before the depth limit, with an empty
\* frontier and visited nodes.
C26_Witness ==
    /\ pc = "answer"
    /\ allNodes = << >>
    /\ depth = 2
    /\ chooseCalls = 2
    /\ visitedNodes # << >>

\* C30: whatever the relevance oracle returns, every visited node and every
\* node of the frontier is a fact the graph store holds, and every chunk
\* index of the result is the provenance of a stored fact; a node the oracle
\* names that the store does not hold is never visited.
C30_VisitedFromStore ==
    /\ Range(visitedNodes) \cup Range(allNodes) \subseteq StoredNodes
    /\ Range(chunkIndices) \subseteq {ChunkIndex(q.graph) : q \in Range(rdfStore)}
    /\ StrayNodes \cap (Range(visitedNodes) \cup Range(allNodes)) = {}

\* The only nodes the oracle ever selected are nodes the store does not hold,
\* and the answer stage has been handed the provenance of visited facts.
C30_Witness ==
    /\ pc = "qa"
    /\ expanded # {}
    /\ expanded \subseteq StrayNodes
    /\ visitedNodes # << >>
    /\ chunkIndices # << >>

\* the analyzeChunk calls in flight: called and not settled
InFlight == {k \in 1..Len(tasks) : tasks[k].status = "pending"}

\* the batch of chunk k - 1
BatchNumber(k) == (k - 1) \div batchSize

\* C21: at most batchSize analyzeChunk calls are in flight at any time, and
\* when a call of a batch has been made every call of the batches before it
\* has completed.
C21_BatchBackpressure ==
    /\ Cardinality(InFlight) <= batchSize
    /\ \A j, k \in 1..Len(tasks) :
          (BatchNumber(j) < BatchNumber(k) /\ tasks[k].status # "idle")
             => tasks[j].status \in {"fulfilled", "rejected"}

\* The calls of the second batch are all in flight, one of them on its
\* second request, after a first batch one call of which was retried.
C21_Witness ==
    /\ passStatus = "running"
    /\ batchI = batchSize
    /\ Cardinality(InFlight) = batchSize
    /\ \E k \in InFlight : tasks[k].attempts = 1
    /\ \E j \in 1..batchSize :
          tasks[j].status = "fulfilled" /\ tasks[j].attempts > 0
    /\ Len(analyses) = batchSize

\* C28: whatever the interleaving of the callers, the embedding store holds
\* one entry for every label handed to store and no other, each entry is one
\* that was handed to store, and every fact handed to addQuad is in the graph
\* store.
C28_AtomicInsertions ==
    /\ \A a, b \in 1..Len(vectorStore) :
          a # b => vectorStore[a].text # vectorStore[b].text
    /\ {vectorStore[k].text : k \in 1..Len(vectorStore)}
          = {s.text : s \in storeArgs}
    /\ Range(vectorStore) \subseteq storeArgs
    /\ \A q \in quadArgs : InSeq(rdfStore, q)

\* Every caller has run to its end; both labels were handed to store, one of
\* them with two embeddings; facts of two chunks were added, a synonym and a
\* relation among them.
C28_Witness ==
    /\ pc = "callers"
    /\ \A c \in DOMAIN callers : callers[c].pc = "done"
    /\ {s.text : s \in storeArgs} = Labels
    /\ \E s, t \in storeArgs : s.text = t.text /\ s.embedding # t.embedding
    /\ Len(vectorStore) = 2
    /\ \E q, r \in quadArgs :
          /\ q.graph # r.graph
          /\ q.predicate = "is_synonym"
          /\ r.predicate # "is_synonym"

\* C31: once a hop has run every node of the frontier is in visitedNodes, so
\* the chunk indices handed to the answer stage include the provenance of the
\* frontier the traversal stopped with; a node is visited only when a node the
\* oracle selected led to it, so the seed step visits nothing.
C31_FrontierVisited ==
    /\ (depth >= 1) => (Range(allNodes) \subseteq Range(visitedNodes))
    /\ (depth = 0) => (visitedNodes = << >>)
    /\ Range(visitedNodes) \subseteq HopCandidates(expanded)
    /\ (pc = "qa") =>
          /\ chunkIndices = ChunkIndicesOf(visitedNodes)
          /\ \A n \in Range(allNodes) : InSeq(chunkIndices, ChunkIndex(n.chunk))

\* The traversal stopped at the depth limit with a frontier of nodes that were
\* never handed to the oracle, and the answer stage has their provenance.
C31_Witness ==
    /\ pc = "qa"
    /\ depth = MaxDepth + 1
    /\ allNodes # << >>
    /\ Range(allNodes) \cap expanded = {}
    /\ seedNodes # << >>

\* the positions at which a request of an oracle with a retry loop is out
RetryLoops == {"choose", "entities", "triples"}

\* C32: a request that fails with an error other than a parse error ends its
\* operation at once, failed, with no further request and the attempt counter
\* as it was; the attempt counter moves, by one, on parse failures only. So
\* it is for chooseNextGraphNode, extractEntities and extractRDFTriples in a
\* run, and for analyzeChunk whatever the number of attempts before.
C32_ErrorsNotRetried ==
    [][(pc \in RetryLoops) =>
          (/\ (lastResp'.kind = "error") =>
                 (/\ opStatus' = "failed"
                  /\ attempts' = attempts
                  /\ requests' = requests + 1
                  /\ pc' \notin RetryLoops
                  /\ exhausted' = exhausted)
           /\ (attempts' # attempts) =>
                 (attempts' = attempts + 1 /\ lastResp'.kind = "unparseable")
           /\ (lastResp'.kind = "unparseable") => (attempts' = attempts + 1)
           /\ \A att \in 0..(MaxAttempts - 1) :
                 /\ analyzeChunk(att, "error") = "throw"
                 /\ analyzeChunk(att, "null") = "throw"
                 /\ (analyzeChunk(att, "unparseable") = "retry")
                       = (att + 1 < MaxAttempts))]_vars

\* The relevance oracle failed on its second request: the first response
\* could not be parsed, the second request ended in an error.
C32_Witness ==
    /\ opKind = "choose"
    /\ opStatus = "failed"
    /\ lastResp.kind = "error"
    /\ attempts = 1
    /\ requests = 2
    /\ ~exhausted
    /\ pc = "exit"

\* C33: the graph store that loads the file saved from a store of facts
\* indexPDF can add holds the same set of facts: none is lost, none is new.
C33_GraphRoundTrip ==
    (pc = "rt_done") => (Range(rdfStore) = Range(call.before))

\* the is_synonym facts of the graph store
SynonymFacts == {q \in Range(rdfStore) : q.predicate = "is_synonym"}

\* C34: no is_synonym fact of the graph store has its subject as its object,
\* and the object of each is a label of the embedding store.
C34_NoSelfSynonym ==
    \A q \in SynonymFacts :
        /\ q.object # q.subject
        /\ \E k \in 1..Len(vectorStore) : vectorStore[k].text = q.object

\* An entity was met in two chunks, the second time already stored, and each
\* time the synonym step wrote a fact for it; its synonym has the very same
\* embedding as its own entry.
C34_Witness ==
    \E q, r \in SynonymFacts :
        /\ q.subject = r.subject
        /\ q.graph # r.graph
        /\ \E a, b \in 1..Len(vectorStore) :
              /\ vectorStore[a].text = q.subject
              /\ vectorStore[b].text = q.object
              /\ vectorStore[a].embedding = vectorStore[b].embedding

\* C35: the array llm_do_initial_pass returns has one analysis per chunk, and
\* the analysis at place i (from 0) has chunk_index i, in whatever order the
\* calls of a batch have settled.
C35_ResultsInChunkOrder ==
    (passStatus = "returned") =>
        /\ Len(analyses) = Len(tasks)
        /\ \A k \in 1..Len(analyses) : analyses[k].chunk_index = k - 1

\* The pass has returned the analyses of two batches or more, and in each of
\* the first two batches a call for a later chunk settled before a call for
\* an earlier one.
C35_Witness ==
    /\ passStatus = "returned"
    /\ Len(analyses) > batchSize
    /\ \E j, k \in BatchOf(tasks, 0) :
          j < k /\ tasks[j].settledAs > tasks[k].settledAs
    /\ \E j, k \in BatchOf(tasks, batchSize) :
          j < k /\ tasks[j].settledAs > tasks[k].settledAs


====
